---------------------------- MODULE Spec2Model ----------------------------
(***************************************************************************)
(* Model of the versuchung experiment lifecycle and identity engine        *)
(* (versuchung/experiment.py, versuchung/types.py).                        *)
(*                                                                         *)
(* Python strings are sequences of one-character strings, so that the      *)
(* concatenation, the lexicographic sort and the glob match of the code    *)
(* are computed and not assumed.  A Python dict is a sequence of           *)
(* <<key, value>> pairs in insertion order.  A value is a tagged record:   *)
(* a str or an int.                                                        *)
(***************************************************************************)
EXTENDS Integers, Sequences, FiniteSets, TLC

(***************************************************************************)
(* Bounds of the model.                                                    *)
(***************************************************************************)
\* Largest number of declared inputs of one experiment class.
MaxInputs == 2
\* Number of lifecycle executions in one behaviour.
MaxRuns == 2
\* Largest number of artifacts user work creates in one run.
MaxArtifacts == 1

(***************************************************************************)
(* Strings and values.                                                     *)
(***************************************************************************)
\* Code points of the characters the model uses (Python orders str by them).
Ord ==
  [c \in {" ", "-", ".", "0", "1", "2", "3", "4", "5", "6", "7", "8", "9",
          "T", "U", "a", "b", "d", "e", "h", "i", "m", "n", "o", "r", "s",
          "t", "v", "x", "y"} |->
     CASE c = " " -> 32 [] c = "-" -> 45 [] c = "." -> 46
       [] c = "0" -> 48 [] c = "1" -> 49 [] c = "2" -> 50 [] c = "3" -> 51
       [] c = "4" -> 52 [] c = "5" -> 53 [] c = "6" -> 54 [] c = "7" -> 55
       [] c = "8" -> 56 [] c = "9" -> 57
       [] c = "T" -> 84 [] c = "U" -> 85
       [] c = "a" -> 97 [] c = "b" -> 98 [] c = "d" -> 100 [] c = "e" -> 101
       [] c = "h" -> 104 [] c = "i" -> 105 [] c = "m" -> 109 [] c = "n" -> 110
       [] c = "o" -> 111 [] c = "r" -> 114 [] c = "s" -> 115 [] c = "t" -> 116
       [] c = "v" -> 118 [] c = "x" -> 120 [] c = "y" -> 121]

\* s < t for Python str: lexicographic by code point, a proper prefix is smaller.
RECURSIVE StrLess(_, _)
StrLess(s, t) ==
  IF t = <<>> THEN FALSE
  ELSE IF s = <<>> THEN TRUE
  ELSE IF Ord[Head(s)] # Ord[Head(t)] THEN Ord[Head(s)] < Ord[Head(t)]
  ELSE StrLess(Tail(s), Tail(t))

\* A str value and an int value of Python.
StrVal(s) == [t |-> "str", s |-> s, n |-> 0]
IntVal(n) == [t |-> "int", s |-> <<>>, n |-> n]
\* None.
NoneVal == [t |-> "none", s |-> <<>>, n |-> 0]

DigitChars == <<"0", "1", "2", "3", "4", "5", "6", "7", "8", "9">>

\* str(n) of a non-negative int: its decimal digits.
RECURSIVE Digits(_)
Digits(n) ==
  IF n < 10 THEN <<DigitChars[n + 1]>>
  ELSE Digits(n \div 10) \o <<DigitChars[(n % 10) + 1]>>

\* str(value): a str is itself, an int is its decimal digits, None is "None".
Str(v) ==
  IF v.t = "int" THEN Digits(v.n)
  ELSE IF v.t = "none" THEN <<"N", "o", "n", "e">>
  ELSE v.s

\* The str of an absolute path: "/" before every component.
RECURSIVE PathString(_)
PathString(p) ==
  IF p = <<>> THEN <<>> ELSE <<"/">> \o Head(p) \o PathString(Tail(p))

(***************************************************************************)
(* Python dict as a sequence of <<key, value>> pairs in insertion order.   *)
(***************************************************************************)
Keys(d) == {d[i][1] : i \in DOMAIN d}
HasKey(d, k) == k \in Keys(d)
Get(d, k) == d[CHOOSE i \in DOMAIN d : d[i][1] = k][2]
\* d[k] = v: an existing key keeps its position, a new key is appended.
Put(d, k, v) ==
  IF HasKey(d, k)
  THEN [i \in DOMAIN d |-> IF d[i][1] = k THEN <<k, v>> ELSE d[i]]
  ELSE Append(d, <<k, v>>)
\* The key/value pairs of the dict as a set (equality of dicts ignores order).
Items(d) == {d[i] : i \in DOMAIN d}


(***************************************************************************)
(* Identity hashing: Experiment.__calculate_metadata, lines 350-360.       *)
(* An experiment object is [title, version, inputs, outputs]; an input or  *)
(* output parameter object is [name, kind, value].                         *)
(***************************************************************************)
\* A nested experiment whose reference is put into the map with its path.
InpMetadataWithPath(inp) ==
  IF inp.kind = "Experiment"
  THEN << <<inp.name,
            IF inp.value.base = <<>> THEN inp.value.instance
            ELSE StrVal(PathString(inp.value.base))>> >>
  ELSE << <<inp.name, inp.value>> >>

\* String.inp_metadata / FilesystemObject.inp_metadata: {self.name: value};
\* Experiment.inp_metadata: {self.name: self.__experiment_instance}.
InpMetadata(inp) ==
  IF inp.kind = "Experiment"
  THEN << <<inp.name, inp.value.instance>> >>
  ELSE << <<inp.name, inp.value>> >>

\* dict.update(other): every pair of other is stored, in other's order.
RECURSIVE Update(_, _)
Update(d, other) ==
  IF other = <<>> THEN d
  ELSE Update(Put(d, Head(other)[1], Head(other)[2]), Tail(other))

RECURSIVE CollectFrom(_, _)
CollectFrom(params, d) ==
  IF params = <<>> THEN d
  ELSE CollectFrom(Tail(params), Update(d, InpMetadata(Head(params))))

\* A slip that folds the declared outputs into the hashed map as well.
CollectMetadataWithOutputs(exp) == CollectFrom(exp.inputs \o exp.outputs, <<>>)

\* metadata = {}; for name in self.inputs: metadata.update(...inp_metadata()).
CollectMetadata(exp) == CollectFrom(exp.inputs, <<>>)

\* Experiment.filter_metadata: the default hook returns the map unchanged.
FilterMetadata(metadata) == metadata

\* del d[k] for a key the dict may hold (d.pop(k, None)).
Remove(d, k) == SelectSeq(d, LAMBDA kv : kv[1] # k)

\* The filter_metadata methods of the experiment classes, by the statement
\* that makes their body: the inherited one; one that returns a new dict
\* without the key a; one that pops a from the dict it is given and returns
\* that dict; one that stores another value under a and returns that dict.
FilterHooks == {"default", "copy_without", "pop", "assign"}

\* Line 356: calc_metadata = self.filter_metadata(metadata).  The hook gets
\* the dict object itself: ret is what it returns, arg is what the caller's
\* dict holds after the call.
CallFilter(hook, metadata) ==
  CASE hook = "default" ->
         [ret |-> FilterMetadata(metadata), arg |-> metadata]
    [] hook = "copy_without" ->
         [ret |-> Remove(metadata, <<"a">>), arg |-> metadata]
    [] hook = "pop" ->
         [ret |-> Remove(metadata, <<"a">>), arg |-> Remove(metadata, <<"a">>)]
    [] hook = "assign" ->
         [ret |-> Put(metadata, <<"a">>, StrVal(<<"0">>)),
          arg |-> Put(metadata, <<"a">>, StrVal(<<"0">>))]

\* The keys in insertion order: what iterating the dict without sorted() gives.
UnsortedKeys(d) == [i \in DOMAIN d |-> d[i][1]]

\* The smallest str of a non-empty set.
MinStr(S) == CHOOSE s \in S : \A t \in S \ {s} : StrLess(s, t)

RECURSIVE SortedSet(_)
SortedSet(S) ==
  IF S = {} THEN <<>> ELSE <<MinStr(S)>> \o SortedSet(S \ {MinStr(S)})

\* sorted(calc_metadata.keys())
SortedKeys(d) == SortedSet(Keys(d))

VersionPrefix == <<"v", "e", "r", "s", "i", "o", "n", " ">>

\* The bytes m.update() is fed on top of the version line, key by key.
RECURSIVE FoldKeys(_, _)
FoldKeys(ks, d) ==
  IF ks = <<>> THEN <<>>
  ELSE Head(ks) \o <<" ">> \o Str(Get(d, Head(ks))) \o FoldKeys(Tail(ks), d)

\* Everything fed to the md5 object, in order.
DigestInput(version, calc_metadata) ==
  VersionPrefix \o Digits(version)
    \o FoldKeys(SortedKeys(calc_metadata), calc_metadata)

\* md5(...).hexdigest(), taken as collision-free: the digest stands for the
\* bytes it was fed.
Md5Hex(bytes) == bytes

\* m.hexdigest() of the experiment.
ExperimentHash(exp) ==
  Md5Hex(DigestInput(exp.version,
                     CallFilter(exp.filter, CollectMetadata(exp)).ret))

\* "%s-%s" % (self.title, m.hexdigest())
ExperimentInstance(exp) == exp.title \o <<"-">> \o ExperimentHash(exp)

(***************************************************************************)
(* Input universes.                                                        *)
(***************************************************************************)
NameA == <<"a">>
NameB == <<"b">>
\* Values given to String inputs of the hashed experiments: an int, the str
\* of that int, and a str that holds a space.
HashValues ==
  {IntVal(1), StrVal(<<"1">>), StrVal(<<"1", "b", " ", "1">>)}
Titles == {<<"T">>, <<"U">>}
Versions == {1, 2}

\* Sequences of at most MaxInputs parameter objects with distinct names.
ParamSeqs(names, kinds, values) ==
  {q \in UNION {[1..n -> [name : names, kind : kinds, value : values]] :
                  n \in 0..MaxInputs} :
     \A i, j \in DOMAIN q : i # j => q[i].name # q[j].name}

\* Declared outputs of a hashed experiment: none, or one File with a name.
HashOutputs ==
  {<<>>}
    \cup {<<[name |-> <<"o">>, kind |-> "File", value |-> StrVal(f)]>> :
            f \in {<<"x">>, <<"y">>}}

HashExperiments ==
  [title : Titles, version : Versions,
   inputs : ParamSeqs({NameA, NameB}, {"String"}, HashValues),
   outputs : HashOutputs, filter : {"default"}]

NoId == <<>>

(***************************************************************************)
(* The filesystem: a map from path (a sequence of names) to node.  A node  *)
(* is [kind, run, meta, target]: kind is "dir", "file" or "link"; run is   *)
(* the lifecycle execution that last wrote it (0: there before any run);   *)
(* meta is the dict a metadata record holds; target is the path a symbolic *)
(* link resolves to; format says how the text of a file parses.            *)
(***************************************************************************)
NoMeta == <<>>
NoPath == <<>>
Node(kind, r, meta, target) ==
  [kind |-> kind, run |-> r, meta |-> meta, target |-> target,
   format |-> "json"]
\* A file whose text is not what json.dump writes: "pprint" is the text of a
\* Python dict literal, "garbage" a text that neither json nor eval accepts.
TextNode(r, meta, format) ==
  [Node("file", r, meta, NoPath) EXCEPT !.format = format]
DirNode(r) == Node("dir", r, NoMeta, NoPath)
FileNode(r) == Node("file", r, NoMeta, NoPath)

\* The directory the process is started in, the -d base directory, a -d
\* argument that names no directory, and the parent of mkdtemp's directories.
HomeDir == << <<"h">> >>
BaseDir == << <<"b">> >>
MissingDir == << <<"n">> >>
TmpRoot == << <<"t">> >>

\* os.path.join(directory, name)
Join(dir, name) == Append(dir, name)
\* os.path.dirname(path)
Parent(p) == SubSeq(p, 1, Len(p) - 1)
\* os.path.basename(path)
Basename(p) == p[Len(p)]

IsPrefix(p, q) == Len(p) <= Len(q) /\ SubSeq(q, 1, Len(p)) = p

\* os.path.islink(path)
IsLink(f, p) == p \in DOMAIN f /\ f[p].kind = "link"
\* os.path.exists(path): a symbolic link exists when its target does.
Exists(f, p) ==
  /\ p \in DOMAIN f
  /\ f[p].kind = "link" => f[p].target \in DOMAIN f
\* os.path.isdir(path): follows a symbolic link.
IsDir(f, p) ==
  /\ p \in DOMAIN f
  /\ \/ f[p].kind = "dir"
     \/ /\ f[p].kind = "link"
        /\ f[p].target \in DOMAIN f
        /\ f[f[p].target].kind = "dir"

\* os.unlink(path)
Unlink(f, p) == [q \in DOMAIN f \ {p} |-> f[q]]
\* shutil.rmtree(path) of a real directory: the directory and all below it.
RmTree(f, p) == [q \in {q \in DOMAIN f : ~IsPrefix(p, q)} |-> f[q]]
\* Create or replace the node at path.
WriteNode(f, p, node) == [q \in DOMAIN f \cup {p} |-> IF q = p THEN node ELSE f[q]]
\* os.mkdir(path): OSError when the path exists or its parent does not.
CanMkdir(f, p) == p \notin DOMAIN f /\ IsDir(f, Parent(p))

\* A glob that also returns the entries beside the directory.
GlobStarWithSiblings(f, dir) ==
  {q \in DOMAIN f :
     /\ Len(q) >= Len(dir)
     /\ IsPrefix(Parent(dir), q)
     /\ q # dir
     /\ Basename(q)[1] # "."}

\* glob.glob(os.path.join(dir, '*')): the entries of dir whose name does not
\* start with a dot.
GlobStar(f, dir) ==
  {q \in DOMAIN f :
     /\ Len(q) = Len(dir) + 1
     /\ IsPrefix(dir, q)
     /\ Basename(q)[1] # "."}

RECURSIVE RemoveAll(_, _)
\* for f in entries: rmtree(f) if isdir(f) else unlink(f), no entry a link to
\* a directory.
RemoveAll(f, entries) ==
  IF entries = {} THEN f
  ELSE LET q == CHOOSE q \in entries : TRUE
       IN RemoveAll(IF IsDir(f, q) THEN RmTree(f, q) ELSE Unlink(f, q),
                    entries \ {q})

\* The loop of lines 371-375 over the entries glob returned.  rmtree raises
\* OSError on a symbolic link (which isdir follows), so the loop stops at the
\* first link to a directory; glob's order is the directory's, so any subset
\* of the other entries may have been removed by then.
\* Result: the set of possible [fs, ok].
WipeOutcomes(f, dir) ==
  LET matched == GlobStar(f, dir)
      bad == {q \in matched : IsLink(f, q) /\ IsDir(f, q)}
  IN IF bad = {}
     THEN {[fs |-> RemoveAll(f, matched), ok |-> TRUE]}
     ELSE {[fs |-> RemoveAll(f, done), ok |-> FALSE] :
             done \in SUBSET (matched \ bad)}

(***************************************************************************)
(* The persisted record.                                                   *)
(***************************************************************************)
MetadataName == <<"m", "e", "t", "a", "d", "a", "t", "a">>
DateStart == <<"d", "a", "t", "e", "-", "s", "t", "a", "r", "t">>
DateEnd == <<"d", "a", "t", "e", "-", "e", "n", "d">>
ExperimentNameKey ==
  <<"e", "x", "p", "e", "r", "i", "m", "e", "n", "t", "-", "n", "a", "m", "e">>
ExperimentVersionKey ==
  <<"e", "x", "p", "e", "r", "i", "m", "e", "n", "t", "-",
    "v", "e", "r", "s", "i", "o", "n">>
ExperimentHashKey ==
  <<"e", "x", "p", "e", "r", "i", "m", "e", "n", "t", "-", "h", "a", "s", "h">>

\* datetime.datetime.now() when execution r computes its identity and when
\* it tears down: time only moves forward.
StartTime(r) == 2 * r - 1
EndTime(r) == 2 * r

\* str(datetime.datetime.now()) when the clock reads now.
DateString(now) == StrVal(<<"t">> \o Digits(now))

\* A record that already carries an end time when it is first written.
StartRecordWithEnd(metadata, exp, now) ==
  Put(Put(Put(Put(Put(metadata, DateStart, DateString(now)),
                  ExperimentNameKey, StrVal(exp.title)),
              ExperimentVersionKey, IntVal(exp.version)),
          ExperimentHashKey, StrVal(ExperimentHash(exp))),
      DateEnd, DateString(now))

\* Lines 384-387: the bookkeeping fields are stored into the same dict as
\* the configuration.
StartRecord(metadata, exp, now) ==
  Put(Put(Put(Put(metadata, DateStart, DateString(now)),
              ExperimentNameKey, StrVal(exp.title)),
          ExperimentVersionKey, IntVal(exp.version)),
      ExperimentHashKey, StrVal(ExperimentHash(exp)))

\* Line 411: self.__metadata["date-end"] = str(datetime.datetime.now())
EndRecord(metadata, now) == Put(metadata, DateEnd, DateString(now))

(***************************************************************************)
(* Paths given as str, and re-hydration: Experiment.__reinit__.            *)
(* The state of an Experiment object used as a parameter is                *)
(* [t, cls, instance, base, meta, loader, inputs, error]: its class, its   *)
(* __experiment_instance, base_directory and __metadata, how the record    *)
(* was parsed, its inputs, and the exception __reinit__ ended with.        *)
(***************************************************************************)
\* The components of a path str: what lies between the "/".
RECURSIVE SplitPath(_, _)
SplitPath(s, cur) ==
  LET done == IF cur = <<>> THEN <<>> ELSE <<cur>>
  IN IF s = <<>> THEN done
     ELSE IF Head(s) = "/" THEN done \o SplitPath(Tail(s), <<>>)
     ELSE SplitPath(Tail(s), Append(cur, Head(s)))

\* "/" in experiment_path
HasSlash(s) == \E i \in DOMAIN s : s[i] = "/"

\* os.path.basename(str): what follows the last "/".
RECURSIVE BasenameStr(_)
BasenameStr(s) ==
  IF ~HasSlash(s) THEN s ELSE BasenameStr(Tail(s))

\* os.path.abspath(str): a relative path starts at the working directory.
AbsPath(cw, s) ==
  IF s # <<>> /\ s[1] = "/" THEN SplitPath(s, <<>>) ELSE cw \o SplitPath(s, <<>>)

\* os.path.realpath of an absolute path: every symbolic link on the way is
\* replaced by its target.
RECURSIVE RealFrom(_, _, _)
RealFrom(f, done, rest) ==
  IF rest = <<>> THEN done
  ELSE LET q == Append(done, Head(rest))
       IN RealFrom(f, IF IsLink(f, q) THEN f[q].target ELSE q, Tail(rest))

\* os.path.realpath(str)
RealPath(f, cw, s) == RealFrom(f, <<>>, AbsPath(cw, s))

\* A loader that falls back to eval whether or not the environment asks for
\* it.
LoadRecordAlwaysEval(f, record, toggle) ==
  IF ~(record \in DOMAIN f /\ f[record].kind = "file")
  THEN [error |-> "FileNotFoundError", meta |-> NoMeta, loader |-> "none"]
  ELSE IF f[record].format = "json"
  THEN [error |-> "none", meta |-> f[record].meta, loader |-> "json"]
  ELSE IF f[record].format = "pprint"
  THEN [error |-> "none", meta |-> f[record].meta, loader |-> "eval"]
  ELSE [error |-> "SyntaxError", meta |-> NoMeta, loader |-> "eval"]

\* Lines 149-158: json.load of the record; when it is no JSON, eval of its
\* text if VERSUCHUNG_METADATA_EVAL is set, else RuntimeError.
\* Result: [error, meta, loader].
LoadRecord(f, record, toggle) ==
  IF ~(record \in DOMAIN f /\ f[record].kind = "file")
  THEN [error |-> "FileNotFoundError", meta |-> NoMeta, loader |-> "none"]
  ELSE IF f[record].format = "json"
  THEN [error |-> "none", meta |-> f[record].meta, loader |-> "json"]
  ELSE IF ~toggle
  THEN [error |-> "RuntimeError", meta |-> NoMeta, loader |-> "none"]
  ELSE IF f[record].format = "pprint"
  THEN [error |-> "none", meta |-> f[record].meta, loader |-> "eval"]
  ELSE [error |-> "SyntaxError", meta |-> NoMeta, loader |-> "eval"]

\* self.inputs[name] = None
NoneInput(name) == [name |-> name, kind |-> "None", value |-> NoneVal]

\* The object state __reinit__ leaves.
ExpState(c, instance, base, loaded, inputs, error) ==
  [t |-> "exp", cls |-> c, instance |-> instance, base |-> base,
   meta |-> loaded.meta, loader |-> loaded.loader, inputs |-> inputs,
   error |-> error]

NotLoaded == [error |-> "none", meta |-> NoMeta, loader |-> "none"]

\* A loop of lines 189-201 without the else branch: an input that has no
\* __reinit__ keeps the copy of its declaration.
ReinitInputKeepsUnsupported(inp, metadata, child) ==
  IF inp.kind = "Experiment"
  THEN IF ~HasKey(metadata, inp.name) \/ child.error # "none"
       THEN NoneInput(inp.name)
       ELSE [inp EXCEPT !.value = child]
  ELSE inp

\* Lines 191-201 for one input: an input that has __reinit__ (an Experiment
\* has, a String and a function have not) is re-hydrated from metadata[name];
\* child is what its __reinit__ gives.  A KeyError or an exception of the
\* child's __reinit__ is caught and the input set to None.
ReinitInput(inp, metadata, child) ==
  IF inp.kind = "Experiment"
  THEN IF ~HasKey(metadata, inp.name) \/ child.error # "none"
       THEN NoneInput(inp.name)
       ELSE [inp EXCEPT !.value = child]
  ELSE NoneInput(inp.name)

\* A Python object that is no parameter: the str "x".
NotAParameter == [t |-> "object", s |-> <<>>, n |-> 0]

\* isinstance(inp, InputParameter): String, File, Directory and Experiment
\* are input parameters.
IsInputParameter(inp) ==
  inp.kind \in {"String", "File", "Directory", "Experiment"}
\* isinstance(outp, OutputParameter): File, Directory and Experiment are
\* output parameters, a String is not.
IsOutputParameter(outp) == outp.kind \in {"File", "Directory", "Experiment"}

\* Lines 171-186: the sanity check of the copied declarations d.  A function
\* is skipped; an input that is no InputParameter or an output that is no
\* OutputParameter ends the process by sys.exit(-1).
ContractError(d) ==
  IF \/ \E i \in DOMAIN d.inputs :
          d.inputs[i].kind # "Lambda" /\ ~IsInputParameter(d.inputs[i])
     \/ \E i \in DOMAIN d.outputs : ~IsOutputParameter(d.outputs[i])
  THEN "SystemExit" ELSE "none"

RECURSIVE Reinit(_, _, _, _, _, _)
\* __reinit__(experiment_path) of an object of class c (lines 138-201), with
\* the filesystem f, the working directory cw, the class-level declarations
\* decl and the environment toggle.
Reinit(f, cw, decl, c, experiment_path, toggle) ==
  IF experiment_path.t # "str"
  THEN \* None (or what "/" in ... rejects)
       ExpState(c, NoneVal, NoPath, NotLoaded, decl[c].inputs,
                IF experiment_path.t = "none" THEN ContractError(decl[c])
                ELSE "TypeError")
  ELSE IF experiment_path.s = <<>>
  THEN ExpState(c, experiment_path, NoPath, NotLoaded, decl[c].inputs,
                ContractError(decl[c]))
  ELSE
    LET s == experiment_path.s
        instance == IF HasSlash(s) THEN StrVal(BasenameStr(s)) ELSE experiment_path
        base == RealPath(f, cw, s)
        loaded == LoadRecord(f, Join(base, MetadataName), toggle)
        child(inp) ==
          IF inp.kind = "Experiment" /\ HasKey(loaded.meta, inp.name)
          THEN Reinit(f, cw, decl, inp.value.cls, Get(loaded.meta, inp.name),
                      toggle)
          ELSE ExpState(c, NoneVal, NoPath, NotLoaded, <<>>, "KeyError")
        inputs == [i \in DOMAIN decl[c].inputs |->
                     ReinitInput(decl[c].inputs[i], loaded.meta,
                                 child(decl[c].inputs[i]))]
    IN IF ~Exists(f, base)
       THEN ExpState(c, instance, base, NotLoaded, decl[c].inputs,
                     "AssertionError")
       ELSE IF loaded.error # "none"
       THEN ExpState(c, instance, base, loaded, decl[c].inputs, loaded.error)
       ELSE IF ContractError(decl[c]) # "none"
       THEN ExpState(c, instance, base, loaded, decl[c].inputs,
                     ContractError(decl[c]))
       ELSE ExpState(c, instance, base, loaded, inputs, "none")

(***************************************************************************)
(* The lifecycle: one process executes experiments one after the other     *)
(* into the same base directory.                                           *)
(***************************************************************************)
NameDateEnd == DateEnd
DefaultValue == StrVal(<<"1">>)
OverrideValue == StrVal(<<"2">>)
Unresolved == StrVal(<<>>)

Decl(name, kind) ==
  [name |-> name, kind |-> kind,
   value |-> IF kind = "Lambda" THEN Unresolved ELSE DefaultValue]

\* The inputs dictionaries of the experiment classes: no input; one String;
\* a String and a computed input; a String and a String named like the
\* record's end-time field.
ClassInputs ==
  {<<>>,
   <<Decl(NameA, "String")>>,
   <<Decl(NameA, "String"), Decl(NameB, "Lambda")>>,
   <<Decl(NameA, "String"), Decl(NameDateEnd, "String")>>}

OutputName == <<"o">>
\* An outputs dictionary with one File named "o".
OneOutput ==
  <<[name |-> OutputName, kind |-> "File", value |-> StrVal(OutputName)]>>

Class(inputs, outputs, suspend) ==
  [title |-> <<"T">>, version |-> 1, inputs |-> inputs, outputs |-> outputs,
   suspend_on_error |-> suspend, filter |-> "default"]

\* The experiment classes: each inputs dictionary with one File output, the
\* one-String class also without outputs and with suspend_on_error set.
ExperimentClasses ==
  {Class(i, OneOutput, FALSE) : i \in ClassInputs}
    \cup {Class(<<Decl(NameA, "String")>>, <<>>, FALSE),
          Class(<<Decl(NameA, "String")>>, OneOutput, TRUE)}

NoExp ==
  [title |-> <<>>, version |-> 0, inputs |-> <<>>, outputs |-> <<>>,
   suspend_on_error |-> FALSE, filter |-> "default"]
NoOpts ==
  [base_dir |-> NoPath, dummy_result |-> FALSE, do_symlink |-> FALSE,
   values |-> <<>>]

\* Names a caller may pass as keyword overrides, each with OverrideValue.
KwNames == {NameA, NameB, NameDateEnd}

\* What user work may create in its working directory: a directory or a
\* symbolic link to a directory under a plain name, a file under a name
\* starting with a dot.
ArtifactName == <<"x">>
HiddenName == <<".", "h">>
Artifacts ==
  {<<ArtifactName, "dir">>, <<ArtifactName, "link">>, <<HiddenName, "file">>}

VARIABLES
  hexp, hid,              \* SpecHash: the two experiments and their identities
  dirs,                   \* Directory objects and the with-blocks entered
  file,                   \* a File object and the file at its path
  procs,                  \* the processes that execute concurrently
  environ,                \* whether VERSUCHUNG_METADATA_EVAL is set
  declared,               \* the class-level inputs and outputs, by class name
  run,                    \* number of the current lifecycle execution
  pc,                     \* position of the process in the lifecycle
  exp,                    \* the experiment object
  opts,                   \* self.__opts
  cwd,                    \* the process working directory
  startup_directory,      \* self.startup_directory
  tmp_directory,          \* self.tmp_directory.path
  base_directory,         \* self.base_directory
  experiment_instance,    \* self.__experiment_instance
  metadata,               \* self.__metadata
  fs,                     \* the filesystem
  thrown,                 \* what run() raised ("none": it returned)
  raised,                 \* what execute raised to its caller
  returned,               \* what execute returned to its caller
  resolved,               \* names of the inputs that hold a resolved value
  outdone,                \* names of the outputs whose setup hook has run
  nart                    \* artifacts user work created in this run

hashVars == <<hexp, hid>>
typeVars == <<dirs, file>>
raceVars == <<procs>>
envVars == <<environ, declared>>
lifeVars ==
  <<run, pc, exp, opts, cwd, startup_directory, tmp_directory, base_directory,
    experiment_instance, metadata, fs, thrown, raised, returned, resolved,
    outdone, nart>>
vars == <<hashVars, typeVars, raceVars, envVars, lifeVars>>

\* The directories that exist before the first execution.
InitialFs ==
  [p \in {HomeDir, BaseDir, TmpRoot} |-> DirNode(0)]

\* No class whose declarations the model follows.
NoDeclarations == <<>>

\* The Directory objects of the model, with their paths.
DirObjects == {"d", "e"}
DirPath == [o \in DirObjects |-> IF o = "d" THEN BaseDir ELSE TmpRoot]

\* No with-block entered: no Directory object has an olddir attribute.
NoBlocks ==
  [olddir |-> [o \in DirObjects |-> NoPath], blocks |-> <<>>,
   unwinding |-> FALSE]
\* No File object.
NoFile ==
  [cls |-> "none", state |-> "none", value |-> NoneVal, disk |-> NoneVal,
   expected |-> NoneVal, calls |-> 0, raised |-> "none"]
\* No concurrent processes.
NoProcs == <<>>

\* A process that has constructed no experiment yet.
ProcessIdle ==
  /\ dirs = NoBlocks
  /\ file = NoFile
  /\ procs = NoProcs
  /\ run = 1
  /\ pc = "start"
  /\ exp = NoExp
  /\ opts = NoOpts
  /\ cwd = HomeDir
  /\ startup_directory = NoPath
  /\ tmp_directory = NoPath
  /\ base_directory = NoPath
  /\ experiment_instance = NoId
  /\ metadata = NoMeta
  /\ thrown = "none"
  /\ raised = "none"
  /\ returned = NoId
  /\ resolved = {}
  /\ outdone = {}
  /\ nart = 0

\* The idle process in a filesystem that holds no result yet.
LifeIdle == ProcessIdle /\ fs = InitialFs

(***************************************************************************)
(* SpecHash: the identity of two experiments with resolved inputs.         *)
(***************************************************************************)
\* Two experiment objects with resolved inputs; no identity computed yet.
HashInit ==
  /\ hexp \in [1..2 -> HashExperiments]
  /\ hid = [i \in 1..2 |-> NoId]
  /\ environ = FALSE
  /\ declared = NoDeclarations
  /\ LifeIdle

\* __calculate_metadata of experiment i, up to line 360.
HashCalc(i) ==
  /\ hid[i] = NoId
  /\ hid' = [hid EXCEPT ![i] = ExperimentInstance(hexp[i])]
  /\ UNCHANGED <<hexp, typeVars, raceVars, envVars, lifeVars>>

HashNext == \E i \in 1..2 : HashCalc(i)

SpecHash == HashInit /\ [][HashNext]_vars

(***************************************************************************)
(* Spec: the lifecycle.                                                    *)
(***************************************************************************)
Init ==
  /\ hexp = <<>>
  /\ hid = <<>>
  /\ environ = FALSE
  /\ declared = NoDeclarations
  /\ LifeIdle

\* Experiment.__init__ / __reinit__(None): the instance gets deep copies of
\* its class's inputs and outputs; nothing outside the object is touched.
Construct ==
  /\ pc = "start"
  /\ exp' \in ExperimentClasses
  /\ pc' = "initialized"
  /\ UNCHANGED <<hashVars, typeVars, raceVars, envVars, run, opts, cwd, startup_directory, tmp_directory,
                 base_directory, experiment_instance, metadata, fs,
                 thrown, raised, returned, resolved, outdone, nart>>

\* __setup_parser: one option per input that is not a deferred computation.
OptionNames(e) ==
  {e.inputs[i].name : i \in {j \in DOMAIN e.inputs : e.inputs[j].kind # "Lambda"}}

RECURSIVE ParsedValues(_, _)
\* parse_args and the kwargs loop: each option holds its default (the
\* input's current value) unless a keyword overrides it.
ParsedValues(inputs, kw) ==
  IF inputs = <<>> THEN <<>>
  ELSE LET inp == Head(inputs)
           rest == ParsedValues(Tail(inputs), kw)
       IN IF inp.kind = "Lambda" THEN rest
          ELSE << <<inp.name, IF inp.name \in kw THEN OverrideValue ELSE inp.value>> >>
                 \o rest

\* execute_setup up to the call of before_experiment_run (lines 251-268).
\* kw: the keyword overrides; dummy, symlink, bd: --dummy, -s and -d.
ExecuteSetup ==
  /\ pc = "initialized"
  /\ startup_directory' = cwd
  /\ \E kw \in SUBSET KwNames, dummy \in BOOLEAN, symlink \in BOOLEAN,
        bd \in {BaseDir, MissingDir} :
       IF kw \subseteq OptionNames(exp)
       THEN /\ opts' = [base_dir |-> bd, dummy_result |-> dummy,
                        do_symlink |-> symlink,
                        values |-> ParsedValues(exp.inputs, kw)]
            /\ pc' = "extract"
            /\ raised' = raised
       ELSE /\ opts' = opts
            /\ pc' = "raised"
            /\ raised' = "AttributeError"
  /\ UNCHANGED <<hashVars, typeVars, raceVars, envVars, run, exp, cwd, tmp_directory, base_directory,
                 experiment_instance, metadata, fs, thrown, returned,
                 resolved, outdone, nart>>

\* An order of before_experiment_run that sets the outputs up before the
\* identity is computed.
StepAfterOutputsFirst(step) ==
  CASE step = "extract" -> "lambdas"
    [] step = "lambdas" -> "mktmp"
    [] step = "mktmp" -> "outputs"
    [] step = "outputs" -> "identify"
    [] step = "identify" -> "chdir"

\* The order of the steps of before_experiment_run("output"), lines 318-347,
\* and of execute_run after it (execute, lines 247-248).
StepAfter(step) ==
  CASE step = "extract" -> "lambdas"
    [] step = "lambdas" -> "mktmp"
    [] step = "mktmp" -> "identify"
    [] step = "identify" -> "outputs"
    [] step = "outputs" -> "chdir"

\* String.inp_extract_cmdline_parser: the value is the parsed option.
ExtractValue(inp, values) ==
  IF inp.kind = "Lambda" THEN inp
  ELSE [inp EXCEPT !.value = Get(values, inp.name)]

\* Experiment.inp_extract_cmdline_parser, lines 440-455: a reference that is
\* missing raises ExperimentError; else it is resolved from the working
\* directory, must exist, and the object is re-hydrated from it.  When
\* __reinit__ raises, the object keeps the map and the inputs it had.
ExtractExperiment(inp, values, f, cw, decl, toggle) ==
  LET given == IF HasKey(values, inp.name) THEN Get(values, inp.name)
               ELSE NoneVal
  IN IF given.t # "str" \/ given.s = <<>>
     THEN [inp EXCEPT !.value.instance = given,
                      !.value.error = "ExperimentError"]
     ELSE LET path == RealPath(f, cw, given.s)
          IN IF ~Exists(f, path)
             THEN [inp EXCEPT !.value.instance = StrVal(Basename(path)),
                              !.value.base = path,
                              !.value.error = "AssertionError"]
             ELSE LET r == Reinit(f, cw, decl, inp.value.cls,
                                  StrVal(PathString(path)), toggle)
                  IN IF r.error = "none" THEN [inp EXCEPT !.value = r]
                     ELSE [inp EXCEPT !.value.instance = r.instance,
                                      !.value.base = r.base,
                                      !.value.error = r.error]

\* inp.inp_extract_cmdline_parser(self.__opts, self.__args) of one input.
Extracted(inp, values, f, cw, decl, toggle) ==
  IF inp.kind = "Experiment"
  THEN ExtractExperiment(inp, values, f, cw, decl, toggle)
  ELSE ExtractValue(inp, values)

\* Lines 318-323: every directly declared input extracts its value; the
\* first input whose extraction raises ends execute.
ExtractInputs ==
  /\ pc = "extract"
  /\ LET got == [i \in DOMAIN exp.inputs |->
                   Extracted(exp.inputs[i], opts.values, fs, cwd, declared,
                             environ)]
         failed == {i \in DOMAIN got :
                      got[i].kind = "Experiment" /\ got[i].value.error # "none"}
     IN IF failed = {}
        THEN /\ exp' = [exp EXCEPT !.inputs = got]
             /\ resolved' = resolved \cup OptionNames(exp)
             /\ pc' = StepAfter("extract")
             /\ raised' = raised
        ELSE LET k == CHOOSE i \in failed : \A j \in failed : i <= j
             IN /\ exp' = [exp EXCEPT !.inputs =
                             [i \in DOMAIN got |->
                                IF i <= k THEN got[i] ELSE exp.inputs[i]]]
                /\ resolved' =
                     resolved \cup {n \in OptionNames(exp) :
                                      \E i \in 1..(k - 1) : exp.inputs[i].name = n}
                /\ pc' = "raised"
                /\ raised' = got[k].value.error
  /\ UNCHANGED <<hashVars, typeVars, raceVars, envVars, run, opts, cwd, startup_directory,
                 tmp_directory, base_directory, experiment_instance, metadata,
                 fs, thrown, returned, outdone, nart>>

\* A computed input that is called with the class-level declaration and not
\* with the instance that holds the extracted values.
LambdaResultOfDeclaration(e, name) ==
  [name |-> name, kind |-> "String", value |-> DefaultValue]

\* inp(self) of the computed inputs of the classes.  A declaration without an
\* object is lambda self: String(self.a.value), a String whose default is the
\* resolved value of the first declared input; a declaration that holds an
\* Experiment object is lambda self: that object; one that holds the str "x"
\* is lambda self: "x".
LambdaResult(e, name) ==
  LET d == e.inputs[CHOOSE i \in DOMAIN e.inputs : e.inputs[i].name = name]
  IN IF d.value.t = "exp"
     THEN [name |-> name, kind |-> "Experiment", value |-> d.value]
     ELSE IF d.value = NotAParameter
     THEN [name |-> name, kind |-> "Object", value |-> NotAParameter]
     ELSE [name |-> name, kind |-> "String", value |-> e.inputs[1].value]

RECURSIVE ResolveFrom(_, _)
\* Lines 327-333, from input i on: inp = inp(self); inp.name = name;
\* self.inputs[name] = inp.  The loop ends at a result that takes no
\* attribute: inp.name = name raises AttributeError for a str.
ResolveFrom(e, i) ==
  IF i > Len(e.inputs) THEN e
  ELSE IF e.inputs[i].kind # "Lambda" THEN ResolveFrom(e, i + 1)
  ELSE IF LambdaResult(e, e.inputs[i].name).kind = "Object" THEN e
  ELSE ResolveFrom([e EXCEPT !.inputs[i] = LambdaResult(e, e.inputs[i].name)],
                   i + 1)

\* Lines 325-335: the computed inputs are resolved and installed; nothing
\* looks at what kind of object a computed input returned.
ResolveLambdas ==
  /\ pc = "lambdas"
  /\ LET e == ResolveFrom(exp, 1)
         installed == {e.inputs[i].name :
                         i \in {j \in DOMAIN e.inputs :
                                  e.inputs[j].kind # "Lambda"}}
     IN /\ exp' = e
        /\ resolved' = resolved \cup installed
        /\ IF \E i \in DOMAIN e.inputs : e.inputs[i].kind = "Lambda"
           THEN pc' = "raised" /\ raised' = "AttributeError"
           ELSE pc' = StepAfter("lambdas") /\ raised' = raised
  /\ UNCHANGED <<hashVars, typeVars, raceVars, envVars, run, opts, cwd, startup_directory, tmp_directory,
                 base_directory, experiment_instance, metadata, fs,
                 thrown, returned, outdone, nart>>

\* Type.before_experiment_run(self, "input") and
\* Type.after_experiment_run("input"): the hooks of a parameter that is used
\* as an input create and flush nothing.
TypeBeforeRun(f, inp) == f
TypeAfterRun(f, inp) == f

\* A nested experiment that is set up like the experiment that is executed:
\* its result directory is cleared.
BeforeRunAsOutput(f, inp) ==
  IF inp.kind = "Experiment" /\ inp.value.base # NoPath
  THEN RemoveAll(f, GlobStar(f, inp.value.base))
  ELSE f

\* Lines 312-316: an experiment used as an input only runs the input
\* handlers and returns.
BeforeRunAsInput(f, inp) == TypeBeforeRun(f, inp)

\* Lines 432-434: an experiment used as an input runs the hooks of its
\* outputs as inputs.
AfterRunAsInput(f, inp) == TypeAfterRun(f, inp)

RECURSIVE InputsBeforeRun(_, _)
\* Lines 341-342: for obj in self.inputs.values(): before_experiment_run.
InputsBeforeRun(f, inputs) ==
  IF inputs = <<>> THEN f
  ELSE InputsBeforeRun(BeforeRunAsInput(f, Head(inputs)), Tail(inputs))

RECURSIVE InputsAfterRun(_, _)
\* Lines 408-409: for inp in self.inputs: after_experiment_run("input").
InputsAfterRun(f, inputs) ==
  IF inputs = <<>> THEN f
  ELSE InputsAfterRun(AfterRunAsInput(f, Head(inputs)), Tail(inputs))

\* Lines 337-342: tempfile.mkdtemp() makes a fresh directory, then every
\* input's before_experiment_run("input") runs.
MakeTmp ==
  /\ pc = "mktmp"
  /\ tmp_directory' = Join(TmpRoot, Digits(run))
  /\ fs' = InputsBeforeRun(WriteNode(fs, Join(TmpRoot, Digits(run)),
                                     DirNode(run)),
                           exp.inputs)
  /\ pc' = StepAfter("mktmp")
  /\ UNCHANGED <<hashVars, typeVars, raceVars, envVars, run, exp, opts, cwd, startup_directory,
                 base_directory, experiment_instance, metadata, thrown,
                 raised, returned, resolved, outdone, nart>>

\* A result directory that is put under the base directory in every mode.
ResultDirectoryIgnoringDummy(o, tmp, instance) == Join(o.base_dir, instance)

\* Lines 361-366: where the result directory is.
ResultDirectory(o, tmp, instance) ==
  Join(IF o.dummy_result THEN tmp ELSE o.base_dir, instance)

\* __calculate_metadata (lines 350-392): compute the identity, wipe or create
\* the result directory, write the record.
CalculateMetadata ==
  /\ pc = "identify"
  /\ LET instance == ExperimentInstance(exp)
         dir == ResultDirectory(opts, tmp_directory, instance)
         outcomes == IF Exists(fs, dir) THEN WipeOutcomes(fs, dir)
                     ELSE {[fs |-> fs, ok |-> TRUE]}
     IN /\ experiment_instance' = instance
        /\ base_directory' = dir
        /\ \E w \in outcomes :
             IF ~w.ok
             THEN \* rmtree raised OSError
                  /\ fs' = w.fs
                  /\ pc' = "raised"
                  /\ raised' = "OSError"
                  /\ UNCHANGED metadata
             ELSE LET made == IF CanMkdir(w.fs, dir)
                              THEN WriteNode(w.fs, dir, DirNode(run))
                              ELSE w.fs
                      record ==
                        StartRecord(CallFilter(exp.filter,
                                               CollectMetadata(exp)).arg,
                                    exp, StartTime(run))
                  IN IF ~IsDir(made, dir)
                     THEN \* open(..., "w") raised: no such directory
                          /\ fs' = made
                          /\ pc' = "raised"
                          /\ raised' = "FileNotFoundError"
                          /\ UNCHANGED metadata
                     ELSE /\ fs' = WriteNode(made, Join(dir, MetadataName),
                                             Node("file", run, record, NoPath))
                          /\ metadata' = record
                          /\ pc' = StepAfter("identify")
                          /\ raised' = raised
  /\ UNCHANGED <<hashVars, typeVars, raceVars, envVars, run, exp, opts, cwd, startup_directory,
                 tmp_directory, thrown, returned, resolved, outdone, nart>>

RECURSIVE WriteOutputs(_, _, _, _)
\* File.outp_setup_output and File.flush: open(self.path, "w+") and write.
WriteOutputs(f, dir, outputs, r) ==
  IF outputs = <<>> THEN f
  ELSE WriteOutputs(WriteNode(f, Join(dir, Head(outputs).value.s), FileNode(r)),
                    dir, Tail(outputs), r)

\* Lines 346-347: every output's setup hook.
SetupOutputs ==
  /\ pc = "outputs"
  /\ fs' = WriteOutputs(fs, base_directory, exp.outputs, run)
  /\ outdone' = {exp.outputs[i].name : i \in DOMAIN exp.outputs}
  /\ pc' = StepAfter("outputs")
  /\ UNCHANGED <<hashVars, typeVars, raceVars, envVars, run, exp, opts, cwd, startup_directory,
                 tmp_directory, base_directory, experiment_instance, metadata, thrown, raised, returned, resolved, nart>>

\* execute_run, line 275: os.chdir(self.base_directory).
EnterRun ==
  /\ pc = "chdir"
  /\ cwd' = base_directory
  /\ pc' = "running"
  /\ UNCHANGED <<hashVars, typeVars, raceVars, envVars, run, exp, opts, startup_directory, tmp_directory,
                 base_directory, experiment_instance, metadata, fs,
                 thrown, raised, returned, resolved, outdone, nart>>

\* run(): user work creates an artifact in its working directory.
RunWork ==
  /\ pc = "running"
  /\ nart < MaxArtifacts
  /\ \E a \in Artifacts :
       fs' = WriteNode(fs, Join(cwd, a[1]),
                       Node(a[2], run, NoMeta,
                            IF a[2] = "link" THEN HomeDir ELSE NoPath))
  /\ nart' = nart + 1
  /\ UNCHANGED <<hashVars, typeVars, raceVars, envVars, run, pc, exp, opts, cwd, startup_directory,
                 tmp_directory, base_directory, experiment_instance, metadata, thrown, raised, returned, resolved, outdone>>

\* run() returns: control goes to the finally clause.
RunReturns ==
  /\ pc = "running"
  /\ thrown' = "none"
  /\ pc' = "finally"
  /\ UNCHANGED <<hashVars, typeVars, raceVars, envVars, run, exp, opts, cwd, startup_directory,
                 tmp_directory, base_directory, experiment_instance, metadata,
                 fs, raised, returned, resolved, outdone, nart>>

\* run() raises: a RuntimeError goes to the except clause (line 278), any
\* other exception straight to the finally clause.
RunRaises ==
  /\ pc = "running"
  /\ \E e \in {"RuntimeError", "ValueError"} :
       /\ thrown' = e
       /\ pc' = IF e = "RuntimeError" THEN "except" ELSE "finally"
  /\ UNCHANGED <<hashVars, typeVars, raceVars, envVars, run, exp, opts, cwd, startup_directory,
                 tmp_directory, base_directory, experiment_instance, metadata,
                 fs, raised, returned, resolved, outdone, nart>>

\* Lines 279-283: under suspend_on_error the process stops itself.
Suspend ==
  /\ pc = "except"
  /\ exp.suspend_on_error
  /\ pc' = "suspended"
  /\ UNCHANGED <<hashVars, typeVars, raceVars, envVars, run, exp, opts, cwd, startup_directory,
                 tmp_directory, base_directory, experiment_instance, metadata,
                 fs, thrown, raised, returned, resolved, outdone, nart>>

\* Lines 284-286: shutil.rmtree(self.tmp_directory.path), then raise e;
\* reached at once, or when the stopped process is continued.
RemoveTmpOnError ==
  /\ \/ pc = "except" /\ ~exp.suspend_on_error
     \/ pc = "suspended"
  /\ fs' = RmTree(fs, tmp_directory)
  /\ pc' = "finally"
  /\ UNCHANGED <<hashVars, typeVars, raceVars, envVars, run, exp, opts, cwd, startup_directory,
                 tmp_directory, base_directory, experiment_instance, metadata, thrown, raised, returned, resolved, outdone, nart>>

\* A finally clause that restores the directory on the normal path only.
CwdAfterRunNoFinally(startup, current, e) ==
  IF e = "none" THEN startup ELSE current

\* Lines 287-288: finally: os.chdir(self.startup_directory).
CwdAfterRun(startup, current, e) == startup

\* An except clause that ends without raise e.
PropagatedSwallowed(e) == IF e = "RuntimeError" THEN "none" ELSE e

\* What leaves execute_run: raise e re-raises the caught RuntimeError, and
\* any other exception passes through the finally clause.
Propagated(e) == e

\* The finally clause of execute_run, and what execute does next: on an
\* exception it ends, else it calls execute_teardown (lines 248-249).
Finally ==
  /\ pc = "finally"
  /\ cwd' = CwdAfterRun(startup_directory, cwd, thrown)
  /\ raised' = Propagated(thrown)
  /\ pc' = IF Propagated(thrown) = "none" THEN "teardown" ELSE "raised"
  /\ UNCHANGED <<hashVars, typeVars, raceVars, envVars, run, exp, opts, startup_directory, tmp_directory,
                 base_directory, experiment_instance, metadata, fs,
                 thrown, returned, resolved, outdone, nart>>

\* after_experiment_run("output"), lines 405-409: the teardown hooks of the
\* outputs (File.flush writes the value) and of the inputs.  A hook may
\* raise (a pre-write filter, a value that is no str).
TeardownHooks ==
  /\ pc = "teardown"
  /\ \/ /\ fs' = InputsAfterRun(WriteOutputs(fs, base_directory,
                                                exp.outputs, run),
                                   exp.inputs)
        /\ pc' = "record"
        /\ raised' = raised
     \/ /\ exp.outputs # <<>>
        /\ fs' = fs
        /\ pc' = "raised"
        /\ raised' = "TeardownError"
  /\ UNCHANGED <<hashVars, typeVars, raceVars, envVars, run, exp, opts, cwd, startup_directory,
                 tmp_directory, base_directory, experiment_instance, metadata, thrown, returned, resolved, outdone, nart>>

\* Lines 411-413: the end time is stored and the record written again.
TeardownRecord ==
  /\ pc = "record"
  /\ metadata' = EndRecord(metadata, EndTime(run))
  /\ fs' = WriteNode(fs, Join(base_directory, MetadataName),
                     Node("file", run, EndRecord(metadata, EndTime(run)), NoPath))
  /\ pc' = "cleanup"
  /\ UNCHANGED <<hashVars, typeVars, raceVars, envVars, run, exp, opts, cwd, startup_directory,
                 tmp_directory, base_directory, experiment_instance, thrown,
                 raised, returned, resolved, outdone, nart>>

\* A pointer that is put in place of whatever holds its name.
LatestPointerForced(f, e, o, dir, instance, r) ==
  IF o.do_symlink /\ Exists(f, dir)
  THEN LET link == Join(Parent(dir), e.title)
       IN WriteNode(RmTree(f, link), link,
                    Node("link", r, NoMeta, Join(Parent(link), instance)))
  ELSE f

\* Lines 419-430: the pointer to the newest result beside the result
\* directory, named by symlink_name().
LatestPointer(f, e, o, dir, instance, r) ==
  IF o.do_symlink /\ Exists(f, dir)
  THEN LET link == Join(Parent(dir), e.title)
           f1 == IF IsLink(f, link) THEN Unlink(f, link) ELSE f
       IN IF ~Exists(f1, link)
          THEN WriteNode(f1, link,
                         Node("link", r, NoMeta, Join(Parent(link), instance)))
          ELSE f1
  ELSE f

\* Lines 415-430 and execute_teardown's return: the scratch directory is
\* removed, the pointer made, the identity returned.
TeardownCleanup ==
  /\ pc = "cleanup"
  /\ fs' = LatestPointer(RmTree(fs, tmp_directory), exp, opts, base_directory,
                         experiment_instance, run)
  /\ returned' = experiment_instance
  /\ pc' = "complete"
  /\ UNCHANGED <<hashVars, typeVars, raceVars, envVars, run, exp, opts, cwd, startup_directory,
                 tmp_directory, base_directory, experiment_instance, metadata, thrown, raised, resolved, outdone, nart>>

\* The caller constructs and executes the next experiment.
NextRun ==
  /\ pc \in {"complete", "raised"}
  /\ run < MaxRuns
  /\ run' = run + 1
  /\ pc' = "start"
  /\ exp' = NoExp
  /\ opts' = NoOpts
  /\ startup_directory' = NoPath
  /\ tmp_directory' = NoPath
  /\ base_directory' = NoPath
  /\ experiment_instance' = NoId
  /\ metadata' = NoMeta
  /\ thrown' = "none"
  /\ raised' = "none"
  /\ returned' = NoId
  /\ resolved' = {}
  /\ outdone' = {}
  /\ nart' = 0
  /\ UNCHANGED <<hashVars, typeVars, raceVars, envVars, cwd, fs>>

Next ==
  \/ Construct
  \/ ExecuteSetup
  \/ ExtractInputs
  \/ ResolveLambdas
  \/ MakeTmp
  \/ CalculateMetadata
  \/ SetupOutputs
  \/ EnterRun
  \/ RunWork
  \/ RunReturns
  \/ RunRaises
  \/ Suspend
  \/ RemoveTmpOnError
  \/ Finally
  \/ TeardownHooks
  \/ TeardownRecord
  \/ TeardownCleanup
  \/ NextRun

Spec == Init /\ [][Next]_vars

(***************************************************************************)
(* SpecNested: experiments that are constructed from class-level           *)
(* declarations, re-hydrated from result directories and used as inputs of *)
(* other experiments.                                                      *)
(***************************************************************************)
NameE == <<"e">>
OldValue == StrVal(<<"0">>)

\* class L: inputs = {"a": String("1")}, outputs = {"o": File("o")}
LeafInputs == <<Decl(NameA, "String")>>
\* L(): an object of class L constructed without a result directory.
LeafObject == ExpState("L", NoneVal, NoPath, NotLoaded, LeafInputs, "none")

\* The classes: L; M with inputs = {"e": L()}; Q with
\* inputs = {"b": lambda self: L()}.
NestedDeclarations ==
  [c \in {"L", "M", "Q"} |->
     CASE c = "L" -> [inputs |-> LeafInputs, outputs |-> OneOutput]
       [] c = "M" ->
            [inputs |-> <<[name |-> NameE, kind |-> "Experiment",
                           value |-> LeafObject]>>,
             outputs |-> <<>>]
       [] c = "Q" ->
            [inputs |-> <<[name |-> NameB, kind |-> "Lambda",
                           value |-> LeafObject]>>,
             outputs |-> <<>>]]

\* The inputs argument of the constructor: not given, or (for class L) a
\* dictionary whose String has another default.
CtorInputs(c) ==
  {[given |-> FALSE, inputs |-> <<>>]}
    \cup (IF c = "L"
          THEN {[given |-> TRUE,
                 inputs |-> <<[name |-> NameA, kind |-> "String",
                               value |-> OverrideValue]>>]}
          ELSE {})

\* An experiment object of class L as it was when it ran with a = v.
LeafRun(v) ==
  [title |-> <<"T">>, version |-> 1,
   inputs |-> <<[name |-> NameA, kind |-> "String", value |-> v]>>,
   outputs |-> OneOutput, suspend_on_error |-> FALSE, filter |-> "default"]

\* The result directory a completed run of e left under parent before this
\* process started, with its record in the given format.
OldResult(f, parent, e, format) ==
  LET dir == Join(parent, ExperimentInstance(e))
      record == IF format = "garbage" THEN NoMeta
                ELSE EndRecord(StartRecord(CollectMetadata(e), e, 0), 0)
  IN WriteOutputs(WriteNode(WriteNode(f, dir, DirNode(0)),
                            Join(dir, MetadataName),
                            TextNode(0, record, format)),
                  dir, e.outputs, 0)

\* The filesystem before the first execution: in the startup directory a
\* directory named like the title, the result of L with a = "0" and a result
\* of L with a = "1" whose record was cut off; in the base directory a result
\* of L with a = "0" whose record an old version wrote with pprint.
NestedFs ==
  OldResult(
    OldResult(
      OldResult(WriteNode(InitialFs, Join(HomeDir, <<"T">>), DirNode(0)),
                HomeDir, LeafRun(OldValue), "json"),
      HomeDir, LeafRun(DefaultValue), "garbage"),
    BaseDir, LeafRun(OldValue), "pprint")

NestedInit ==
  /\ hexp = <<>>
  /\ hid = <<>>
  /\ environ \in BOOLEAN
  /\ declared = NestedDeclarations
  /\ ProcessIdle
  /\ fs = NestedFs

\* The references a caller may give: the absolute path of an entry of the
\* startup or the base directory, the bare name of an entry of the startup
\* directory, and a path that does not exist.
References(f) ==
  LET entries(d) == {q \in DOMAIN f : Len(q) = Len(d) + 1 /\ IsPrefix(d, q)}
  IN {StrVal(PathString(q)) : q \in entries(HomeDir) \cup entries(BaseDir)}
       \cup {StrVal(Basename(q)) : q \in entries(HomeDir)}
       \cup {StrVal(PathString(MissingDir))}

\* Experiment(default_experiment_instance, inputs = ...), lines 114-201: the
\* inputs argument replaces the class's declaration, a default that does not
\* exist is dropped, and __reinit__ builds the object.
ConstructNested ==
  /\ pc = "start"
  /\ \E c \in DOMAIN declared, given \in {NoneVal} \cup References(fs) :
     \E arg \in CtorInputs(c) :
       LET decl == IF arg.given
                   THEN [declared EXCEPT ![c].inputs = arg.inputs]
                   ELSE declared
           default == IF given.t = "str"
                         /\ ~Exists(fs, RealPath(fs, cwd, given.s))
                      THEN NoneVal ELSE given
           st == Reinit(fs, cwd, decl, c, default, environ)
       IN /\ declared' = decl
          /\ base_directory' = st.base
          /\ experiment_instance' = st.instance.s
          /\ IF st.error = "none"
             THEN /\ exp' = [title |-> <<"T">>, version |-> 1,
                             inputs |-> st.inputs,
                             outputs |-> decl[c].outputs,
                             suspend_on_error |-> FALSE,
                             filter |-> "default",
                             cls |-> c, loader |-> st.loader]
                  /\ metadata' = st.meta
                  /\ pc' = "initialized"
                  /\ raised' = raised
             ELSE /\ exp' = NoExp
                  /\ metadata' = NoMeta
                  /\ pc' = "raised"
                  /\ raised' = st.error
  /\ UNCHANGED <<hashVars, typeVars, raceVars, environ, run, opts, cwd, startup_directory,
                 tmp_directory, fs, thrown, returned, resolved, outdone, nart>>

\* The dests of the options __setup_parser always adds (lines 207-218).
GlobalOptions ==
  {<<"b", "a", "s", "e", "_", "d", "i", "r">>,
   <<"d", "u", "m", "m", "y", "_", "r", "e", "s", "u", "l", "t">>,
   <<"d", "o", "_", "s", "y", "m", "l", "i", "n", "k">>,
   <<"v", "e", "r", "b", "o", "s", "e">>,
   <<"t", "i", "t", "l", "e">>}

\* A method of optparse.Values: an attribute every opts object has.
ReadFile == <<"r", "e", "a", "d", "_", "f", "i", "l", "e">>

\* hasattr(opts, key) holds for every option's dest only.
HasAttrOptionsOnly(e, key) == key \in OptionNames(e) \cup GlobalOptions

\* hasattr(opts, key): opts has the dest of every option as an attribute,
\* and the attributes of its class.
HasAttr(e, key) == key \in OptionNames(e) \cup GlobalOptions \cup {ReadFile}

\* The default of an input's option: line 438 for an Experiment, the current
\* value for a String.
OptionDefault(inp) ==
  IF inp.kind = "Experiment" THEN inp.value.instance ELSE inp.value

\* parse_args without arguments: every option holds its default.
OptionDefaults(inputs) ==
  LET opt == SelectSeq(inputs, LAMBDA x : x.kind # "Lambda")
  IN [i \in DOMAIN opt |-> <<opt[i].name, OptionDefault(opt[i])>>]

\* The keyword arguments of execute: none, a reference for e, or a value
\* under the name read_file.
Overrides(f) ==
  {<<>>, << <<ReadFile, OverrideValue>> >>}
    \cup {<< <<NameE, r>> >> : r \in References(f)}

\* The command lines: -s in the startup directory, -s -d b, --dummy -s -d b,
\* and -d b.
NestedInvocations ==
  {[dummy_result |-> FALSE, do_symlink |-> TRUE, base_dir |-> HomeDir],
   [dummy_result |-> FALSE, do_symlink |-> TRUE, base_dir |-> BaseDir],
   [dummy_result |-> TRUE, do_symlink |-> TRUE, base_dir |-> BaseDir],
   [dummy_result |-> FALSE, do_symlink |-> FALSE, base_dir |-> BaseDir]}

\* execute_setup up to the call of before_experiment_run (lines 251-268),
\* with keyword arguments that carry values: __setup_parser fails on an
\* input that is None, a key opts has no attribute for raises
\* AttributeError, every other key is stored into opts.
ExecuteSetupNested ==
  /\ pc = "initialized"
  /\ startup_directory' = cwd
  /\ \E kw \in Overrides(fs), inv \in NestedInvocations :
       IF \/ \E i \in DOMAIN exp.inputs : exp.inputs[i].kind = "None"
          \/ \E k \in Keys(kw) : ~HasAttr(exp, k)
       THEN /\ opts' = opts
            /\ pc' = "raised"
            /\ raised' = "AttributeError"
       ELSE /\ opts' = [base_dir |-> inv.base_dir,
                        dummy_result |-> inv.dummy_result,
                        do_symlink |-> inv.do_symlink,
                        values |-> Update(OptionDefaults(exp.inputs), kw)]
            /\ pc' = "extract"
            /\ raised' = raised
  /\ UNCHANGED <<hashVars, typeVars, raceVars, envVars, run, exp, cwd, tmp_directory,
                 base_directory, experiment_instance, metadata, fs, thrown,
                 returned, resolved, outdone, nart>>

NestedNext ==
  \/ ConstructNested
  \/ ExecuteSetupNested
  \/ ExtractInputs
  \/ ResolveLambdas
  \/ MakeTmp
  \/ CalculateMetadata
  \/ SetupOutputs
  \/ EnterRun
  \/ RunReturns
  \/ RunRaises
  \/ RemoveTmpOnError
  \/ Finally
  \/ TeardownHooks
  \/ TeardownRecord
  \/ TeardownCleanup
  \/ NextRun

SpecNested == NestedInit /\ [][NestedNext]_vars

\* C1: two experiments with the same title, the same version and the same
\* set of key/value pairs get the same identity, whatever the order in
\* which their inputs were declared and whichever is computed first.
C1_OrderIndependent ==
  \A i, j \in 1..2 :
    (/\ hid[i] # NoId /\ hid[j] # NoId
     /\ hexp[i].title = hexp[j].title
     /\ hexp[i].version = hexp[j].version
     /\ Items(CollectMetadata(hexp[i])) = Items(CollectMetadata(hexp[j])))
    => hid[i] = hid[j]

C1_Witness ==
  /\ hid[1] # NoId /\ hid[2] # NoId
  /\ hexp[1].title = hexp[2].title
  /\ hexp[1].version = hexp[2].version
  /\ Len(hexp[1].inputs) = 2
  /\ hexp[1].inputs # hexp[2].inputs
  /\ Items(CollectMetadata(hexp[1])) = Items(CollectMetadata(hexp[2]))
  /\ hid[1] = hid[2]

\* C2: two experiments with the same title and version whose configuration
\* maps differ in a key or in a value are fed different bytes, so their
\* identities differ.
C2_DistinctMapsDistinctIdentity ==
  \A i, j \in 1..2 :
    (/\ hid[i] # NoId /\ hid[j] # NoId
     /\ hexp[i].title = hexp[j].title
     /\ hexp[i].version = hexp[j].version
     /\ Items(CollectMetadata(hexp[i])) # Items(CollectMetadata(hexp[j])))
    => hid[i] # hid[j]

\* C3: two experiments with the same title, version and input values get
\* the same identity, whatever outputs they declare.
C3_OutputsNeverAffectIdentity ==
  \A i, j \in 1..2 :
    (/\ hid[i] # NoId /\ hid[j] # NoId
     /\ hexp[i].title = hexp[j].title
     /\ hexp[i].version = hexp[j].version
     /\ hexp[i].inputs = hexp[j].inputs)
    => hid[i] = hid[j]

C3_Witness ==
  /\ hid[1] # NoId /\ hid[2] # NoId
  /\ hexp[1].title = hexp[2].title
  /\ hexp[1].version = hexp[2].version
  /\ hexp[1].inputs = hexp[2].inputs
  /\ hexp[1].inputs # <<>>
  /\ hexp[1].outputs # <<>> /\ hexp[2].outputs # <<>>
  /\ hexp[1].outputs # hexp[2].outputs
  /\ hid[1] = hid[2]

(***************************************************************************)
(* Properties of the lifecycle.                                            *)
(***************************************************************************)
Identified == experiment_instance # NoId
InputNames == {exp.inputs[i].name : i \in DOMAIN exp.inputs}
RecordPath == Join(base_directory, MetadataName)
HasRecord == base_directory # NoPath /\ RecordPath \in DOMAIN fs
Record == fs[RecordPath].meta
\* User work has raised and execute has ended.
RunFailed == pc = "raised" /\ thrown # "none"

\* C4: the identity is computed only when every declared and every computed
\* input holds its resolved value, no output setup hook runs before it, and
\* user work runs only with the result directory identified and created.
C4_IdentityOrdering ==
  /\ Identified =>
       /\ resolved = InputNames
       /\ \A i \in DOMAIN exp.inputs : exp.inputs[i].kind # "Lambda"
       /\ experiment_instance = ExperimentInstance(exp)
  /\ outdone # {} => Identified
  /\ (pc = "running" \/ nart > 0 \/ thrown # "none") =>
       /\ Identified
       /\ outdone = {exp.outputs[i].name : i \in DOMAIN exp.outputs}
  /\ pc = "running" => IsDir(fs, base_directory) /\ HasRecord

C4_Witness ==
  /\ pc = "running"
  /\ Identified
  /\ NameB \in resolved
  /\ outdone # {}
  /\ IsDir(fs, base_directory)

\* C5: when a run that reused an existing result directory has completed,
\* everything in that directory was written by that run.
C5_OnlyOwnArtifacts ==
  (pc = "complete" /\ base_directory \in DOMAIN fs) =>
    \A q \in DOMAIN fs :
      (IsPrefix(base_directory, q) /\ q # base_directory) => fs[q].run = run

\* C6: after user work raised and execute has raised to its caller, without
\* suspend_on_error, the scratch directory does not exist.
C6_ScratchRemovedOnFailure ==
  (RunFailed /\ ~exp.suspend_on_error) => tmp_directory \notin DOMAIN fs

\* C7: after user work raised, the result directory exists and holds a
\* record with date-start and without date-end, in every mode.
C7_RecordSurvivesFailure ==
  RunFailed =>
    /\ IsDir(fs, base_directory)
    /\ HasRecord
    /\ HasKey(Record, DateStart)
    /\ ~HasKey(Record, DateEnd)

\* C7 as amended: outside dummy mode, after user work raised, the result
\* directory exists and holds the record written at identification: it has
\* date-start and no end time has been written to it (a date-end entry is
\* the value of an input of that name).
C7_RecordSurvivesFailureOutsideDummy ==
  (RunFailed /\ ~opts.dummy_result) =>
    /\ IsDir(fs, base_directory)
    /\ HasRecord
    /\ HasKey(Record, DateStart)
    /\ Record = metadata
    /\ HasKey(Record, DateEnd) =>
         /\ NameDateEnd \in InputNames
         /\ Get(Record, DateEnd) = Get(CollectMetadata(exp), NameDateEnd)

C7_Witness ==
  /\ RunFailed
  /\ thrown = "RuntimeError"
  /\ ~opts.dummy_result
  /\ HasRecord
  /\ HasKey(Record, DateStart)
  /\ ~HasKey(Record, DateEnd)

\* C8: once user work has raised, execute ends by raising that same failure,
\* after the handler's cleanup (working directory restored; scratch directory
\* removed for the RuntimeError the handler catches); it returns no identity
\* and never reaches teardown.
C8_FailureNeverSwallowed ==
  thrown # "none" =>
    /\ pc \in {"except", "suspended", "finally", "raised"}
    /\ returned = NoId
    /\ pc = "raised" =>
         /\ raised = thrown
         /\ cwd = startup_directory
         /\ thrown = "RuntimeError" => tmp_directory \notin DOMAIN fs

C8_Witness ==
  /\ pc = "raised"
  /\ thrown = "RuntimeError"
  /\ raised = "RuntimeError"
  /\ returned = NoId

\* C9: during user work the working directory is the result directory; once
\* execute_run has ended, by return or by any failure, it is the directory
\* the process was in before the lifecycle started.
C9_WorkingDirectoryRestored ==
  /\ pc = "running" => cwd = base_directory
  /\ pc \in {"teardown", "record", "cleanup", "complete", "raised"} =>
       /\ cwd = HomeDir
       /\ startup_directory = HomeDir

C9_Witness ==
  /\ pc = "raised"
  /\ thrown = "ValueError"
  /\ base_directory # HomeDir
  /\ cwd = HomeDir

\* C10: from identification through user work the record exists, holds
\* date-start, experiment-name, experiment-version, experiment-hash and
\* every configuration entry, and holds no date-end; when execute has ended,
\* the record holds date-end if and only if teardown completed.
C10_RecordLifecycle ==
  /\ pc \in {"outputs", "chdir", "running"} =>
       /\ HasRecord
       /\ {DateStart, ExperimentNameKey, ExperimentVersionKey,
           ExperimentHashKey} \subseteq Keys(Record)
       /\ Items(CollectMetadata(exp)) \subseteq Items(Record)
       /\ ~HasKey(Record, DateEnd)
  /\ pc = "complete" => HasRecord /\ HasKey(Record, DateEnd)
  /\ (pc = "raised" /\ HasRecord) => ~HasKey(Record, DateEnd)


\* C11: whenever the record of the executing experiment is on disk, loading
\* it as re-hydration does gives a map that holds, for every key of the
\* configuration map, the value the inputs contributed.
C11_RoundTrip ==
  (HasRecord /\ pc \in {"outputs", "chdir", "running", "finally", "teardown",
                        "record", "cleanup", "complete"}) =>
    LET loaded == LoadRecord(fs, RecordPath, environ)
        config == CollectMetadata(exp)
    IN /\ loaded.error = "none"
       /\ \A k \in Keys(config) :
            HasKey(loaded.meta, k) /\ Get(loaded.meta, k) = Get(config, k)


(***************************************************************************)
(* Properties of nested and re-hydrated experiments.                       *)
(***************************************************************************)
\* C12: execute never goes on with a keyword that names no declared option,
\* and when it has raised for such a keyword or for a missing or
\* non-existent nested experiment, this execution has created no scratch
\* directory, no result directory and no record.
C12_ConfigErrorsBeforeSideEffects ==
  /\ opts # NoOpts =>
       Keys(opts.values) \subseteq OptionNames(exp) \cup GlobalOptions
  /\ (/\ pc = "raised"
      /\ thrown = "none"
      /\ raised \in {"AttributeError", "ExperimentError", "AssertionError"}) =>
       /\ tmp_directory = NoPath
       /\ \A q \in DOMAIN fs : fs[q].run # run


\* execute_setup has identified the experiment and execute has not ended
\* before user work.
Executing ==
  \/ pc \in {"outputs", "chdir", "running", "except", "finally", "teardown",
             "record", "cleanup", "complete"}
  \/ pc = "raised" /\ thrown # "none"
\* The inputs of the experiment that are experiments.
NestedInputs == {i \in DOMAIN exp.inputs : exp.inputs[i].kind = "Experiment"}
BookkeepingKeys ==
  {DateStart, DateEnd, ExperimentNameKey, ExperimentVersionKey,
   ExperimentHashKey}

\* C13: an executing experiment whose input is the result directory of
\* another experiment holds, under the input's name, the base name of that
\* directory; its map holds no other configuration key, and its identity is
\* the digest of that name and base name alone, whatever directory the
\* result lies in and however it was referenced.
C13_NestedIdentityOnly ==
  Executing =>
    \A i \in NestedInputs :
      LET inp == exp.inputs[i]
      IN inp.value.base # NoPath =>
           /\ HasKey(metadata, inp.name)
           /\ Get(metadata, inp.name) = StrVal(Basename(inp.value.base))
           /\ Keys(metadata) \ BookkeepingKeys = InputNames
           /\ Len(exp.inputs) = 1 =>
                experiment_instance =
                  exp.title \o <<"-">> \o VersionPrefix \o Digits(exp.version)
                    \o inp.name \o <<" ">> \o Basename(inp.value.base)

C13_Witness ==
  /\ pc = "complete"
  /\ NestedInputs = {1}
  /\ Parent(exp.inputs[1].value.base) = BaseDir
  /\ exp.inputs[1].value.meta # NoMeta
  /\ HasKey(exp.inputs[1].value.meta, NameA)
  /\ ~HasKey(metadata, NameA)


\* Everything at or below directory d.
Under(f, d) == [q \in {q \in DOMAIN f : IsPrefix(d, q)} |-> f[q]]

\* C14: no step of an experiment's lifecycle, from the extraction of its
\* inputs to the end of execute by return or by failure, changes anything at
\* or below the result directory of an experiment it uses as an input.
C14_NestedResultUntouched ==
  [][\A i \in NestedInputs :
       (exp.inputs[i].value.base # NoPath /\ exp.inputs[i].value.error = "none")
         => Under(fs', exp.inputs[i].value.base)
              = Under(fs, exp.inputs[i].value.base)]_vars

C14_Witness ==
  /\ pc \in {"complete", "raised"}
  /\ thrown \in {"none", "RuntimeError"}
  /\ raised = thrown
  /\ NestedInputs = {1}
  /\ exp.inputs[1].value.meta # NoMeta
  /\ IsDir(fs, exp.inputs[1].value.base)
  /\ fs[Join(exp.inputs[1].value.base, MetadataName)].meta
       = exp.inputs[1].value.meta
  /\ \E q \in DOMAIN fs : fs[q].run = run


\* C15: an experiment that has been identified holds, for every input that
\* is an experiment, a reference that was resolved to a directory, and that
\* directory exists.
C15_ReferenceValidated ==
  Executing =>
    \A i \in NestedInputs :
      /\ exp.inputs[i].value.base # NoPath
      /\ Exists(fs, exp.inputs[i].value.base)


\* The record in directory d is text that the loader named accepts, and m
\* is the map it holds; eval is a loader only under the environment toggle.
ParsedAs(d, m, loader) ==
  LET record == Join(d, MetadataName)
  IN /\ record \in DOMAIN fs
     /\ m = fs[record].meta
     /\ \/ fs[record].format = "json" /\ loader = "json"
        \/ fs[record].format = "pprint" /\ loader = "eval" /\ environ

\* C16: an object that was re-hydrated from a directory (the constructed
\* experiment, or an experiment it holds as an input) holds the map of a
\* record that parsed, by json or, only with VERSUCHUNG_METADATA_EVAL set,
\* by eval; a re-hydration that met a record it cannot parse has raised,
\* and an object no load succeeded for holds no map.
C16_CorruptRecordRejected ==
  /\ (pc = "initialized" /\ base_directory # NoPath) =>
       ParsedAs(base_directory, metadata, exp.loader)
  /\ (pc = "raised" /\ exp = NoExp) =>
       /\ metadata = NoMeta
       /\ raised \in {"FileNotFoundError", "RuntimeError", "SyntaxError"}
       /\ raised = "SyntaxError" => environ
  /\ \A i \in NestedInputs :
       LET v == exp.inputs[i].value
       IN /\ (v.error = "none" /\ v.base # NoPath) =>
               ParsedAs(v.base, v.meta, v.loader)
          /\ v.error # "none" => pc = "raised" /\ raised = v.error
          /\ v.loader = "none" => v.meta = NoMeta
          /\ v.loader = "eval" => environ

C16_Witness ==
  /\ ~environ
  /\ pc = "raised"
  /\ raised = "RuntimeError"
  /\ thrown = "none"
  /\ \E i \in NestedInputs :
       /\ exp.inputs[i].value.error = "RuntimeError"
       /\ exp.inputs[i].value.meta = NoMeta
       /\ fs[Join(exp.inputs[i].value.base, MetadataName)].format = "pprint"


\* C17: when an experiment has been constructed from a result directory,
\* each input whose declaration is an experiment, whose name the record
\* holds, and whose own directory (the record's entry, taken from the
\* working directory) exists with a record that loads, is that experiment
\* re-hydrated from the entry; every other input is None.  A construction
\* that raised did so for the record of the directory itself.
C17_RehydrationNeverFailsOnInput ==
  /\ (pc = "initialized" /\ base_directory # NoPath) =>
       \A i \in DOMAIN exp.inputs :
         LET d == declared[exp.cls].inputs[i]
             entry == IF HasKey(metadata, d.name) THEN Get(metadata, d.name)
                      ELSE NoneVal
             dir == RealPath(fs, cwd, Str(entry))
             loads == /\ d.kind = "Experiment"
                      /\ entry.t = "str"
                      /\ Exists(fs, dir)
                      /\ LoadRecord(fs, Join(dir, MetadataName),
                                    environ).error = "none"
         IN IF loads
            THEN /\ exp.inputs[i].kind = "Experiment"
                 /\ exp.inputs[i].name = d.name
                 /\ exp.inputs[i].value.instance = entry
                 /\ exp.inputs[i].value.base = dir
                 /\ ParsedAs(dir, exp.inputs[i].value.meta,
                             exp.inputs[i].value.loader)
            ELSE exp.inputs[i] = NoneInput(d.name)
  /\ (pc = "raised" /\ exp = NoExp) =>
       /\ base_directory # NoPath
       /\ LoadRecord(fs, Join(base_directory, MetadataName), environ).error
            = raised

C17_Witness ==
  /\ pc = "initialized"
  /\ base_directory # NoPath
  /\ exp.cls = "M"
  /\ exp.inputs[1].kind = "Experiment"
  /\ exp.inputs[1].value.meta # NoMeta
  /\ exp.inputs[1].value.inputs = <<NoneInput(NameA)>>


\* C18: whatever instances are constructed and executed, with whatever
\* constructor arguments and overrides, the class-level inputs and outputs
\* of every class are what the class declared.
C18_DeclarationsNeverMutated == declared = NestedDeclarations

\* C19: once the computed inputs are resolved, every directly declared
\* input has been extracted, and the computed input is an ordinary input
\* under its declared name whose value was computed from the instance's
\* extracted values; from then on no input is a deferred computation, and
\* the configuration map of the identified experiment holds the computed
\* input under its name.
C19_ComputedInputsAfterDeclared ==
  /\ (pc \in {"mktmp", "identify"} \/ Executing) =>
       \A i \in DOMAIN exp.inputs : exp.inputs[i].kind # "Lambda"
  /\ (NameB \in InputNames /\ NameB \in resolved) =>
       /\ NameA \in resolved
       /\ exp.inputs[1].value = Get(opts.values, NameA)
       /\ exp.inputs[2] = [name |-> NameB, kind |-> "String",
                           value |-> Get(opts.values, NameA)]
  /\ (NameB \in InputNames /\ pc \in {"outputs", "chdir", "running"}) =>
       /\ HasKey(metadata, NameB)
       /\ Get(metadata, NameB) = Get(opts.values, NameA)
       /\ HasKey(Record, NameB)

C19_Witness ==
  /\ pc = "running"
  /\ NameB \in InputNames
  /\ HasKey(metadata, NameB)
  /\ Get(metadata, NameB) = OverrideValue


\* Where the pointer to the newest result of the experiment belongs.
PointerPath == Join(Parent(base_directory), exp.title)
\* Every entry that was there before the process started, is named like the
\* title and is no symbolic link, is still there as it was.
ForeignEntriesKept ==
  \A q \in DOMAIN NestedFs :
    (Basename(q) = <<"T">> /\ NestedFs[q].kind # "link") =>
      q \in DOMAIN fs /\ fs[q] = NestedFs[q]
\* The entry at PointerPath is a symbolic link this execution made to its
\* result directory, or an entry that is no link and was there before.
PointerInPlace ==
  /\ PointerPath \in DOMAIN fs
  /\ IF fs[PointerPath].kind = "link"
     THEN fs[PointerPath].target = base_directory /\ fs[PointerPath].run = run
     ELSE PointerPath \in DOMAIN NestedFs

\* C20: an execution with -s that has completed, in any mode, leaves the
\* pointer in place, and no entry of that name that is no link is ever
\* deleted or replaced.
C20_LatestPointer ==
  /\ ForeignEntriesKept
  /\ (pc = "complete" /\ opts.do_symlink) => PointerInPlace

\* C20 as amended: the same for an execution outside dummy mode.
C20_LatestPointerOutsideDummy ==
  /\ ForeignEntriesKept
  /\ (pc = "complete" /\ opts.do_symlink /\ ~opts.dummy_result) =>
       PointerInPlace

C20_Witness ==
  /\ pc = "complete"
  /\ run = 2
  /\ opts.do_symlink
  /\ ~opts.dummy_result
  /\ IsLink(fs, PointerPath)
  /\ fs[PointerPath].target = base_directory
  /\ \E q \in DOMAIN fs :
       /\ Parent(q) = Parent(base_directory)
       /\ q # base_directory
       /\ fs[q].kind = "dir"
       /\ fs[q].run = 1



(***************************************************************************)
(* Properties of dummy mode, the filter hook and the result directories.   *)
(***************************************************************************)
\* Teardown has completed, or the failure cleanup of execute_run has run.
CleanedUp ==
  \/ pc = "complete"
  \/ thrown = "RuntimeError" /\ pc \in {"finally", "raised"}

\* C21: in dummy mode the result directory lies in the scratch directory of
\* the run, no step of the lifecycle changes anything at or below the base
\* output directory, and once teardown or the failure cleanup has run no
\* entry this execution wrote is on disk.
C21_DummyLeavesCacheAlone ==
  /\ []((opts.dummy_result /\ base_directory # NoPath) =>
          /\ tmp_directory # NoPath
          /\ Parent(base_directory) = tmp_directory)
  /\ []((opts.dummy_result /\ CleanedUp) =>
          /\ tmp_directory \notin DOMAIN fs
          /\ \A q \in DOMAIN fs : fs[q].run # run)
  /\ [][opts.dummy_result =>
          Under(fs', opts.base_dir) = Under(fs, opts.base_dir)]_vars

C21_Witness ==
  /\ run = 2
  /\ pc = "complete"
  /\ opts.dummy_result
  /\ opts.do_symlink
  /\ opts.base_dir = BaseDir
  /\ Join(BaseDir, experiment_instance) \in DOMAIN fs
  /\ Join(Join(BaseDir, experiment_instance), MetadataName) \in DOMAIN fs
  /\ fs[Join(Join(BaseDir, experiment_instance), MetadataName)].run = 1



(***************************************************************************)
(* SpecFilter: the lifecycle of experiment classes that override           *)
(* filter_metadata.                                                        *)
(***************************************************************************)
\* The classes: one String a, or a and a computed input b, each with one of
\* the filter_metadata methods.
FilterClasses ==
  {[Class(i, OneOutput, FALSE) EXCEPT !.filter = h] :
     i \in {<<Decl(NameA, "String")>>,
            <<Decl(NameA, "String"), Decl(NameB, "Lambda")>>},
     h \in FilterHooks}

\* Experiment.__init__ of a class that overrides filter_metadata.
ConstructFiltered ==
  /\ pc = "start"
  /\ exp' \in FilterClasses
  /\ pc' = "initialized"
  /\ UNCHANGED <<hashVars, typeVars, raceVars, envVars, run, opts, cwd, startup_directory,
                 tmp_directory, base_directory, experiment_instance, metadata,
                 fs, thrown, raised, returned, resolved, outdone, nart>>

FilterNext ==
  \/ ConstructFiltered
  \/ ExecuteSetup
  \/ ExtractInputs
  \/ ResolveLambdas
  \/ MakeTmp
  \/ CalculateMetadata
  \/ SetupOutputs
  \/ EnterRun
  \/ RunReturns
  \/ RunRaises
  \/ RemoveTmpOnError
  \/ Finally
  \/ TeardownHooks
  \/ TeardownRecord
  \/ TeardownCleanup
  \/ NextRun

SpecFilter == Init /\ [][FilterNext]_vars

\* C22: from identification on, the record on disk holds every key/value
\* pair the inputs contributed, whatever the filter hook of the class does
\* with the map it is given, and the identity is the digest of the map the
\* hook returned.
C22_RecordHoldsUnfilteredMap ==
  (pc \in {"outputs", "chdir", "running", "finally", "teardown", "record",
           "cleanup"} /\ HasRecord) =>
    /\ Items(CollectMetadata(exp)) \subseteq Items(Record)
    /\ experiment_instance =
         exp.title \o <<"-">>
           \o Md5Hex(DigestInput(exp.version,
                                 CallFilter(exp.filter,
                                            CollectMetadata(exp)).ret))


(***************************************************************************)
(* SpecContract: classes whose declarations do not satisfy the parameter   *)
(* contracts.                                                              *)
(***************************************************************************)
\* The classes: L; B with inputs = {"a": "x"}; O with
\* outputs = {"o": String("o")}; Z with inputs = {"b": lambda self: "x"}.
ContractDeclarations ==
  [c \in {"L", "B", "O", "Z"} |->
     CASE c = "L" -> [inputs |-> LeafInputs, outputs |-> OneOutput]
       [] c = "B" ->
            [inputs |-> <<[name |-> NameA, kind |-> "Object",
                           value |-> NotAParameter]>>,
             outputs |-> <<>>]
       [] c = "O" ->
            [inputs |-> LeafInputs,
             outputs |-> <<[name |-> OutputName, kind |-> "String",
                            value |-> StrVal(OutputName)]>>]
       [] c = "Z" ->
            [inputs |-> <<[name |-> NameB, kind |-> "Lambda",
                           value |-> NotAParameter]>>,
             outputs |-> <<>>]]

ContractInit ==
  /\ hexp = <<>>
  /\ hid = <<>>
  /\ environ \in BOOLEAN
  /\ declared = ContractDeclarations
  /\ ProcessIdle
  /\ fs = NestedFs

ContractNext ==
  \/ ConstructNested
  \/ ExecuteSetupNested
  \/ ExtractInputs
  \/ ResolveLambdas
  \/ MakeTmp
  \/ CalculateMetadata
  \/ SetupOutputs
  \/ EnterRun
  \/ RunReturns
  \/ RunRaises
  \/ RemoveTmpOnError
  \/ Finally
  \/ TeardownHooks
  \/ TeardownRecord
  \/ TeardownCleanup
  \/ NextRun

SpecContract == ContractInit /\ [][ContractNext]_vars

\* What the deferred computation of a declaration returns.
ResultKind(d) ==
  IF d.value = NotAParameter THEN "Object"
  ELSE IF d.value.t = "exp" THEN "Experiment" ELSE "String"

\* C23: an experiment object exists only for a class all of whose declared
\* inputs satisfy the input contract (a deferred computation by the object
\* it returns) and all of whose declared outputs satisfy the output
\* contract; a construction that failed the check ended with the fatal
\* exit, and no execution fails on a parameter later.
C23_ContractCheckedAtConstruction ==
  /\ exp # NoExp =>
       /\ \A i \in DOMAIN declared[exp.cls].inputs :
            LET d == declared[exp.cls].inputs[i]
            IN IF d.kind = "Lambda"
               THEN ResultKind(d) \in {"String", "File", "Directory",
                                       "Experiment"}
               ELSE IsInputParameter(d)
       /\ \A i \in DOMAIN declared[exp.cls].outputs :
            IsOutputParameter(declared[exp.cls].outputs[i])
       /\ \A i \in DOMAIN exp.inputs : exp.inputs[i].kind # "Object"
  /\ raised = "SystemExit" => exp = NoExp /\ opts = NoOpts




(***************************************************************************)
(* SpecDir: Directory objects used as with-blocks (types.py, lines         *)
(* 209-214).  dirs.olddir is the olddir attribute of each object,          *)
(* dirs.blocks the blocks entered and not yet left, innermost last, each   *)
(* with the working directory that was current when it was entered;        *)
(* dirs.unwinding holds while an exception travels outwards.               *)
(***************************************************************************)
\* Deepest nesting of with-blocks.
MaxDepth == 3

\* Directory.__enter__: self.olddir = os.path.abspath(os.curdir);
\* os.chdir(self.path).
DirEnter ==
  /\ ~dirs.unwinding
  /\ Len(dirs.blocks) < MaxDepth
  /\ \E o \in DirObjects :
       /\ IsDir(fs, DirPath[o])
       /\ dirs' = [dirs EXCEPT
                     !.olddir[o] = cwd,
                     !.blocks = Append(@, [obj |-> o, entry |-> cwd])]
       /\ cwd' = DirPath[o]
  /\ UNCHANGED <<hashVars, file, raceVars, envVars, run, pc, exp, opts,
                 startup_directory, tmp_directory, base_directory,
                 experiment_instance, metadata, fs, thrown, raised, returned,
                 resolved, outdone, nart>>

\* The body of the innermost block (or the code outside every block) changes
\* the working directory itself.
DirBodyChdir ==
  /\ ~dirs.unwinding
  /\ \E d \in {HomeDir, BaseDir, TmpRoot} : d # cwd /\ cwd' = d
  /\ UNCHANGED <<hashVars, typeVars, raceVars, envVars, run, pc, exp, opts,
                 startup_directory, tmp_directory, base_directory,
                 experiment_instance, metadata, fs, thrown, raised, returned,
                 resolved, outdone, nart>>

\* Directory.__exit__: os.chdir(self.olddir) of the object whose block ends.
ExitTarget(d) == d.olddir[d.blocks[Len(d.blocks)].obj]

\* The innermost block ends: its body returned, its body raised, or an
\* exception raised further in passes through it.  __exit__ runs each time
\* and returns None, so an exception travels on.
DirExit ==
  /\ dirs.blocks # <<>>
  /\ cwd' = ExitTarget(dirs)
  /\ \E raises \in BOOLEAN :
       /\ dirs.unwinding => raises
       /\ dirs' = [dirs EXCEPT
                     !.blocks = SubSeq(@, 1, Len(@) - 1),
                     !.unwinding = raises]
  /\ UNCHANGED <<hashVars, file, raceVars, envVars, run, pc, exp, opts,
                 startup_directory, tmp_directory, base_directory,
                 experiment_instance, metadata, fs, thrown, raised, returned,
                 resolved, outdone, nart>>

\* An except clause around a block catches the exception.
DirCaught ==
  /\ dirs.unwinding
  /\ dirs' = [dirs EXCEPT !.unwinding = FALSE]
  /\ UNCHANGED <<hashVars, file, raceVars, envVars, lifeVars>>

DirNext == DirEnter \/ DirBodyChdir \/ DirExit \/ DirCaught

SpecDir == Init /\ [][DirNext]_vars

\* C24: entering a Directory makes its path the working directory, and the
\* end of a block, by return or by exception, makes the working directory
\* the one that was current when that block was entered, for every nesting
\* of blocks, the same Directory entered inside its own block included.
C24_DirectoryRestoresCwd ==
  [][/\ Len(dirs'.blocks) > Len(dirs.blocks) =>
          cwd' = DirPath[dirs'.blocks[Len(dirs'.blocks)].obj]
     /\ Len(dirs'.blocks) < Len(dirs.blocks) =>
          cwd' = dirs.blocks[Len(dirs.blocks)].entry]_vars



(***************************************************************************)
(* SpecFile: one File object (types.py, lines 111-167).  file.value is the *)
(* attribute __value (None, or a str), file.disk the content of the file   *)
(* at the object's path (None: there is no file), file.expected the        *)
(* content of the last write without append followed by what was appended  *)
(* since (None: no such write yet), file.calls the number of write calls.  *)
(***************************************************************************)
\* Largest number of write calls on the File.
MaxWrites == 3

\* The contents that are written, the empty str among them.
Contents == {<<>>, <<"A">>, <<"B">>}
\* What the file holds before the object is used: nothing, or a text.
PriorContents == {StrVal(<<>>), StrVal(<<"X">>)}
\* File, and a subclass whose before_write puts a terminator after the
\* value.
FileClasses == {"File", "Terminated"}

\* File.after_read: the content as it is.
AfterRead(cls, content) == content
\* File.before_write of the class; the subclass returns value + "!".
BeforeWrite(cls, value) ==
  IF cls = "Terminated" THEN StrVal(value.s \o <<"!">>) ELSE value

\* `not self.__value` is false: a value is cached.  None and the empty str
\* both count as no value.
Cached(v) == v.t = "str" /\ v.s # <<>>

\* The value property (lines 124-131) of a File whose attribute is v, with
\* the file holding disk: [value, error].
Getter(cls, v, disk) ==
  IF Cached(v) THEN [value |-> v, error |-> "none"]
  ELSE IF disk.t = "none" THEN [value |-> v, error |-> "IOError"]
  ELSE [value |-> AfterRead(cls, disk), error |-> "none"]

FileInit ==
  /\ hexp = <<>>
  /\ hid = <<>>
  /\ environ = FALSE
  /\ declared = NoDeclarations
  /\ dirs = NoBlocks
  /\ procs = NoProcs
  /\ \E c \in FileClasses, d \in PriorContents \cup {NoneVal} :
       file = [cls |-> c, state |-> "new", value |-> NoneVal, disk |-> d,
               expected |-> NoneVal, calls |-> 0, raised |-> "none"]
  /\ run = 1
  /\ pc = "start"
  /\ exp = NoExp
  /\ opts = NoOpts
  /\ cwd = HomeDir
  /\ startup_directory = NoPath
  /\ tmp_directory = NoPath
  /\ base_directory = NoPath
  /\ experiment_instance = NoId
  /\ metadata = NoMeta
  /\ thrown = "none"
  /\ raised = "none"
  /\ returned = NoId
  /\ resolved = {}
  /\ outdone = {}
  /\ nart = 0
  /\ fs = InitialFs

\* File.outp_setup_output: open(self.path, "w+") and write "".
FileSetup ==
  /\ file.state = "new"
  /\ file.calls = 0
  /\ file' = [file EXCEPT !.state = "ready", !.disk = StrVal(<<>>)]
  /\ UNCHANGED <<hashVars, dirs, raceVars, envVars, lifeVars>>

\* File.write(content, append), lines 136-142: self.value += content reads
\* the value property first; the call raises when there is no file to read.
FileWrite ==
  /\ file.state \in {"new", "ready"}
  /\ file.raised = "none"
  /\ file.calls < MaxWrites
  /\ \E content \in Contents, append \in BOOLEAN :
       IF append
       THEN LET got == Getter(file.cls, file.value, file.disk)
            IN IF got.error # "none"
               THEN file' = [file EXCEPT !.raised = got.error,
                                         !.calls = @ + 1]
               ELSE file' = [file EXCEPT
                               !.value = StrVal(got.value.s \o content),
                               !.expected =
                                 IF @.t = "none" THEN @
                                 ELSE StrVal(@.s \o content),
                               !.calls = @ + 1]
       ELSE file' = [file EXCEPT !.value = StrVal(content),
                                 !.expected = StrVal(content),
                                 !.calls = @ + 1]
  /\ UNCHANGED <<hashVars, dirs, raceVars, envVars, lifeVars>>

\* File.flush, lines 152-158: open(self.path, "w+") empties the file, then
\* the value property is read and before_write of it written.
\* Result: the file record after the call.
Flushed(f) ==
  LET got == Getter(f.cls, f.value, StrVal(<<>>))
      v == BeforeWrite(f.cls, got.value)
  IN [f EXCEPT !.value = got.value,
               !.disk = IF v.t = "none" THEN StrVal(<<>>) ELSE v]

\* The user calls flush() during the run.
FileFlush ==
  /\ file.state \in {"new", "ready"}
  /\ file.raised = "none"
  /\ file.calls > 0
  /\ file' = Flushed(file)
  /\ UNCHANGED <<hashVars, dirs, raceVars, envVars, lifeVars>>

\* File.outp_tear_down_output: the flush at teardown.
FileTeardown ==
  /\ file.state \in {"new", "ready"}
  /\ file.raised = "none"
  /\ file' = [Flushed(file) EXCEPT !.state = "torn"]
  /\ UNCHANGED <<hashVars, dirs, raceVars, envVars, lifeVars>>

FileNext == FileSetup \/ FileWrite \/ FileFlush \/ FileTeardown

SpecFile == FileInit /\ [][FileNext]_vars

\* C25: after write calls of which at least one was without append, and the
\* flush of teardown, the file holds the pre-write filter applied to the
\* content of the last write without append followed by everything appended
\* after it, whatever the file held before and whatever was written.
C25_FlushWritesLastContent ==
  (file.state = "torn" /\ file.expected.t # "none") =>
    file.disk = BeforeWrite(file.cls, file.expected)



\* The directories that hold a record: the result directories.
ResultDirectories(f) ==
  {d \in DOMAIN f : f[d].kind = "dir" /\ Join(d, MetadataName) \in DOMAIN f}

\* C26: a step of an execution leaves every result directory other than the
\* one named by its own identity as it is, with its record and its outputs,
\* and creates no result directory other than its own; this holds when the
\* execution wipes and reuses its own directory beside others.
C26_OnlyOwnResultDirectory ==
  [][/\ \A d \in ResultDirectories(fs) :
          (/\ d # base_directory'
           /\ tmp_directory' = NoPath \/ ~IsPrefix(tmp_directory', d))
            => Under(fs', d) = Under(fs, d)
     /\ \A d \in ResultDirectories(fs') \ ResultDirectories(fs) :
          /\ d = base_directory'
          /\ Basename(d) = experiment_instance']_vars

C26_Witness ==
  /\ pc = "complete"
  /\ ~opts.dummy_result
  /\ base_directory \in DOMAIN NestedFs
  /\ fs[RecordPath].run = run
  /\ \E d \in ResultDirectories(fs) :
       /\ Parent(d) = Parent(base_directory)
       /\ d # base_directory
       /\ Under(fs, d) = Under(NestedFs, d)
       /\ Join(d, OutputName) \in DOMAIN fs



(***************************************************************************)
(* SpecRace: two processes execute the same experiment class into the same *)
(* base directory at the same time.  procs[p] is the state of process p:   *)
(* its position, its experiment, its identity, result directory, scratch   *)
(* directory and map, the entries its glob returned and are not yet        *)
(* removed, and what its execute raised.  A node of the filesystem carries *)
(* the number of the process that wrote it.                                *)
(***************************************************************************)
Processes == {1, 2}

\* A process that has not started.
NoProc ==
  [pc |-> "start", exp |-> NoExp, instance |-> NoId, base |-> NoPath,
   tmp |-> NoPath, todo |-> {}, metadata |-> NoMeta, raised |-> "none"]

\* The experiment of a process: one String a with the given value, one File.
RaceExperiment(v) ==
  [Class(<<Decl(NameA, "String")>>, OneOutput, FALSE) EXCEPT
     !.inputs[1].value = v]

RaceInit ==
  /\ hexp = <<>>
  /\ hid = <<>>
  /\ environ = FALSE
  /\ declared = NoDeclarations
  /\ dirs = NoBlocks
  /\ file = NoFile
  /\ procs = [p \in Processes |-> NoProc]
  /\ run = 1
  /\ pc = "start"
  /\ exp = NoExp
  /\ opts = NoOpts
  /\ cwd = HomeDir
  /\ startup_directory = NoPath
  /\ tmp_directory = NoPath
  /\ base_directory = NoPath
  /\ experiment_instance = NoId
  /\ metadata = NoMeta
  /\ thrown = "none"
  /\ raised = "none"
  /\ returned = NoId
  /\ resolved = {}
  /\ outdone = {}
  /\ nart = 0
  /\ fs = InitialFs

RaceUnchanged ==
  UNCHANGED <<hashVars, typeVars, envVars, run, pc, exp, opts, cwd,
              startup_directory, tmp_directory, base_directory,
              experiment_instance, metadata, thrown, raised, returned,
              resolved, outdone, nart>>

\* execute_setup up to mkdtemp (lines 251-342) of process p, with or without
\* an override of a, and -d b.
ProcSetup(p) ==
  /\ procs[p].pc = "start"
  /\ \E v \in {DefaultValue, OverrideValue} :
       procs' = [procs EXCEPT ![p].exp = RaceExperiment(v),
                              ![p].tmp = Join(TmpRoot, Digits(p)),
                              ![p].pc = "identify"]
  /\ fs' = WriteNode(fs, Join(TmpRoot, Digits(p)), DirNode(p))
  /\ RaceUnchanged

\* Lines 350-371: the identity, os.path.exists and glob.glob.
ProcGlob(p) ==
  /\ procs[p].pc = "identify"
  /\ LET instance == ExperimentInstance(procs[p].exp)
         dir == Join(BaseDir, instance)
     IN procs' = [procs EXCEPT
                    ![p].instance = instance,
                    ![p].base = dir,
                    ![p].todo = IF Exists(fs, dir) THEN GlobStar(fs, dir)
                                ELSE {},
                    ![p].pc = IF Exists(fs, dir) THEN "wipe" ELSE "mkdir"]
  /\ fs' = fs
  /\ RaceUnchanged

\* Lines 371-375, one turn of the loop: the next entry glob returned is
\* removed; os.unlink raises when the entry is no longer there.
ProcRemove(p) ==
  /\ procs[p].pc = "wipe"
  /\ IF procs[p].todo = {}
     THEN /\ procs' = [procs EXCEPT ![p].pc = "mkdir"]
          /\ fs' = fs
     ELSE \E q \in procs[p].todo :
            IF q \notin DOMAIN fs
            THEN /\ procs' = [procs EXCEPT ![p].pc = "raised",
                                           ![p].raised = "FileNotFoundError"]
                 /\ fs' = fs
            ELSE /\ procs' = [procs EXCEPT ![p].todo = @ \ {q}]
                 /\ fs' = IF IsDir(fs, q) THEN RmTree(fs, q) ELSE Unlink(fs, q)
  /\ RaceUnchanged

\* A directory creation that fails when the directory is there.
MkdirErrorRaised(f, dir) ==
  IF CanMkdir(f, dir) THEN "none" ELSE "FileExistsError"

\* Lines 377-380: try: os.mkdir(...) except OSError: pass.  What the
\* statement raises to its caller.
MkdirError(f, dir) == "none"

\* Lines 377-380 of process p.
ProcMkdir(p) ==
  /\ procs[p].pc = "mkdir"
  /\ IF MkdirError(fs, procs[p].base) # "none"
     THEN /\ procs' = [procs EXCEPT
                         ![p].pc = "raised",
                         ![p].raised = MkdirError(fs, procs[p].base)]
          /\ fs' = fs
     ELSE /\ procs' = [procs EXCEPT ![p].pc = "record"]
          /\ fs' = IF CanMkdir(fs, procs[p].base)
                   THEN WriteNode(fs, procs[p].base, DirNode(p))
                   ELSE fs
  /\ RaceUnchanged

\* Lines 384-392: the record is written.
ProcRecord(p) ==
  /\ procs[p].pc = "record"
  /\ LET record == StartRecord(CallFilter(procs[p].exp.filter,
                                          CollectMetadata(procs[p].exp)).arg,
                               procs[p].exp, StartTime(p))
     IN /\ procs' = [procs EXCEPT ![p].metadata = record,
                                  ![p].pc = "outputs"]
        /\ fs' = WriteNode(fs, Join(procs[p].base, MetadataName),
                           Node("file", p, record, NoPath))
  /\ RaceUnchanged

\* Lines 346-347: the setup hooks of the outputs.
ProcSetupOutputs(p) ==
  /\ procs[p].pc = "outputs"
  /\ procs' = [procs EXCEPT ![p].pc = "running"]
  /\ fs' = WriteOutputs(fs, procs[p].base, procs[p].exp.outputs, p)
  /\ RaceUnchanged

\* execute_run: run() returns.
ProcRun(p) ==
  /\ procs[p].pc = "running"
  /\ procs' = [procs EXCEPT ![p].pc = "teardown"]
  /\ fs' = fs
  /\ RaceUnchanged

\* Lines 405-409: the teardown hooks flush the outputs.
ProcFlush(p) ==
  /\ procs[p].pc = "teardown"
  /\ procs' = [procs EXCEPT ![p].pc = "endrecord"]
  /\ fs' = WriteOutputs(fs, procs[p].base, procs[p].exp.outputs, p)
  /\ RaceUnchanged

\* Lines 411-413: the record with date-end is written.
ProcEndRecord(p) ==
  /\ procs[p].pc = "endrecord"
  /\ procs' = [procs EXCEPT
                 ![p].metadata = EndRecord(@, EndTime(p)),
                 ![p].pc = "cleanup"]
  /\ fs' = WriteNode(fs, Join(procs[p].base, MetadataName),
                     Node("file", p,
                          EndRecord(procs[p].metadata, EndTime(p)), NoPath))
  /\ RaceUnchanged

\* Line 415 and the return of execute.
ProcCleanup(p) ==
  /\ procs[p].pc = "cleanup"
  /\ procs' = [procs EXCEPT ![p].pc = "complete"]
  /\ fs' = RmTree(fs, procs[p].tmp)
  /\ RaceUnchanged

\* The next step of process p.
ProcStep(p) ==
  \/ ProcSetup(p)
  \/ ProcGlob(p)
  \/ ProcRemove(p)
  \/ ProcMkdir(p)
  \/ ProcRecord(p)
  \/ ProcSetupOutputs(p)
  \/ ProcRun(p)
  \/ ProcFlush(p)
  \/ ProcEndRecord(p)
  \/ ProcCleanup(p)

RaceNext == \E p \in Processes : ProcStep(p)

SpecRace == RaceInit /\ [][RaceNext]_vars

\* Process p has its result directory and has not completed.
InFlight(p) ==
  procs[p].pc \in {"outputs", "running", "teardown", "endrecord", "cleanup"}

OutputsFlushed ==
  /\ pc \in {"record", "cleanup", "complete"}
  /\ \A i \in DOMAIN exp.outputs :
       /\ Join(base_directory, exp.outputs[i].value.s) \in DOMAIN fs
       /\ fs[Join(base_directory, exp.outputs[i].value.s)].run = run

\* C28: a record of this execution that carries date-end implies that every
\* declared output was flushed; when a teardown hook has raised, the record
\* has no date-end; and a teardown step removes the scratch directory only
\* when the hooks have run and the record with date-end is written.
C28_TeardownOrder ==
  /\ []((HasRecord /\ fs[RecordPath].run = run /\ HasKey(Record, DateEnd))
          => OutputsFlushed)
  /\ []((raised = "TeardownError" /\ HasRecord) => ~HasKey(Record, DateEnd))
  /\ [][(/\ pc \in {"teardown", "record", "cleanup"}
         /\ tmp_directory \in DOMAIN fs
         /\ tmp_directory \notin DOMAIN fs')
          => /\ HasRecord
             /\ fs[RecordPath].run = run
             /\ HasKey(Record, DateEnd)
             /\ OutputsFlushed]_vars

=============================================================================
